---- MODULE Spec2Model ----
(***************************************************************************)
(* Weather consumer: alert rule registry, alert evaluator and the Kafka    *)
(* consumption loop (Consumer/alerts/evaluator.go, Consumer/kafka,         *)
(* Consumer/main.go, Consumer/prometheus).                                 *)
(*                                                                         *)
(* float32/float64 quantities are fixed-point integers in hundredths       *)
(* (12.00 degrees is 1200); Go ints (humidity, pressure of a sample, the   *)
(* humidity threshold) stay integers, and F(i) is the conversion           *)
(* float32(i) / float64(i) of an int.                                      *)
(* NaN is the float that strconv.ParseFloat returns for "NaN"; FAdd, FGe   *)
(* and FLe are the IEEE operations on these values.                        *)
(* A Go pointer is a sequence of length 0 (nil) or 1.                      *)
(***************************************************************************)
EXTENDS Integers, Sequences, FiniteSets, TLC

VARIABLES
    phase,       \* "startup" (main before the goroutines start), then "running"
    alertRules,  \* AlertEvaluator.alertRules: zip code -> AlertRule
    pc,          \* position of StartConsuming: "read", "process" or "exit"
    msg,         \* the Kafka message held by the loop (pointer)
    err,         \* the loop's err variable
    metrics,     \* the WeatherMetrics sink: gauges and the log of calls
    evalIn,      \* arguments of the last direct call of the evaluator (pointer)
    evalOut,     \* the alerts it returned
    evalAgain,   \* the alerts a second call with the same arguments returned (pointer)
    now,         \* the wall clock read by time.Now()
    parseIn,     \* the lines of the file given to ParseInputFile (pointer)
    parseOut,    \* what ParseInputFile returned (pointer)
    pending,     \* the gauge sets the loop has still to make for the envelope in process
    inflight,    \* the injection requests decoded and not yet applied
    lastSet,     \* history: the value of the last Set made on each series
    httpReq,     \* history: the last request to the HTTP API (pointer)
    httpResp,    \* the last response of the HTTP API (pointer)
    nRequests,   \* history: number of HTTP requests served
    nAdded,      \* history: number of AddAlertRule calls
    firstAdd,    \* history: zip code -> arguments of the first AddAlertRule call
    lastAdd,     \* history: zip code -> arguments of the last AddAlertRule call
    received,    \* history: number of envelopes received
    processed,   \* history: number of envelopes passed to processMessage
    readErrors,  \* history: number of failed ReadMessage calls
    stream,      \* history: the envelopes received, in order
    outcomes,    \* history: what processMessage returned for each of them
    requests,    \* producer: the requests processInitialBatch ranges over
    reqIndex,    \* producer: number of the request in process (i + 1)
    ppc,         \* producer: position of processInitialBatch
    forecast,    \* producer: the forecast fetched for the request (pointer)
    hourlyCount, \* producer: hourlyCount of processExtendedWeatherData
    sent,        \* history: the Send* calls of the producer and their results
    returned     \* history: what process*WeatherData returned for each request

vars == <<phase, alertRules, pc, msg, err, metrics, evalIn, evalOut, evalAgain,
          now, httpReq, httpResp, nRequests, pending, inflight, lastSet, parseIn,
          parseOut, nAdded, firstAdd, lastAdd, received, processed, readErrors,
          stream, outcomes, requests, reqIndex, ppc, forecast, hourlyCount, sent,
          returned>>

consumerVars ==
    <<phase, alertRules, pc, msg, err, metrics, evalIn, evalOut, evalAgain,
      now, httpReq, httpResp, nRequests, pending, inflight, lastSet, parseIn,
      parseOut, nAdded, firstAdd, lastAdd, received, processed, readErrors,
      stream, outcomes>>

producerVars == <<requests, reqIndex, ppc, forecast, hourlyCount, sent, returned>>

(* ------------------------------ bounds --------------------------------- *)
MaxRules == 2

MaxMsgs == 2

MaxReadErrors == 1

MaxRequests == 1

MaxClock == 1

MaxInjections == 2

MaxLines == 2

(* ------------------------- values and conversions ---------------------- *)
F(i) == i * 100

NaN == 99999999

FAdd(a, b) == IF a = NaN \/ b = NaN THEN NaN ELSE a + b

FGe(a, b) == a # NaN /\ b # NaN /\ a >= b

FLe(a, b) == a # NaN /\ b # NaN /\ a <= b

FLt(a, b) == a # NaN /\ b # NaN /\ a < b

FGt(a, b) == a # NaN /\ b # NaN /\ a > b

Nil == <<>>

Ptr(x) == <<x>>

DefaultDailyPressure == 101325

PressureAlertDefault == 1000

(* ------------------------------ registry ------------------------------- *)
getCityNameFromZipCode(zipCode) ==
    CASE zipCode = "12601" -> "Poughkeepsie"
      [] zipCode = "10001" -> "New York City"
      [] zipCode = "90210" -> "Beverly Hills"
      [] OTHER -> "Unknown City"

\* Mutant: the offsets of the derived thresholds are exchanged.
NewRule_swappedOffsets(zipCode, city, alertTemp, alertWind, alertHumidity) ==
    [ZipCode |-> zipCode, City |-> city, AlertTemp |-> alertTemp,
     HighTempAlert |-> FAdd(alertTemp, -F(5)),
     LowTempAlert |-> FAdd(alertTemp, F(10)),
     WindAlert |-> alertWind, HumidityAlert |-> alertHumidity,
     PressureAlert |-> PressureAlertDefault]

NewRule(zipCode, city, alertTemp, alertWind, alertHumidity) ==
    [ZipCode |-> zipCode, City |-> city,
     AlertTemp |-> alertTemp,
     HighTempAlert |-> FAdd(alertTemp, F(10)),
     LowTempAlert |-> FAdd(alertTemp, -F(5)),
     WindAlert |-> alertWind,
     HumidityAlert |-> alertHumidity,
     PressureAlert |-> PressureAlertDefault]

MapPut(m, k, v) == [x \in DOMAIN m \cup {k} |-> IF x = k THEN v ELSE m[x]]

\* Mutant: an existing entry is kept.
AddAlertRule_keepFirst(rules, zipCode, city, alertTemp, alertWind, alertHumidity) ==
    IF zipCode \in DOMAIN rules
    THEN rules
    ELSE MapPut(rules, zipCode, NewRule(zipCode, city, alertTemp, alertWind, alertHumidity))

AddAlertRule(rules, zipCode, city, alertTemp, alertWind, alertHumidity) ==
    MapPut(rules, zipCode, NewRule(zipCode, city, alertTemp, alertWind, alertHumidity))

GetAlertRule(rules, zipCode) ==
    IF zipCode \in DOMAIN rules THEN Ptr(rules[zipCode]) ELSE Nil

(* ------------------------------ evaluator ------------------------------ *)
\* Message is the format string of fmt.Sprintf followed by its arguments;
\* Description, a rendering of the same values with %.1f, is left out.
\* Mutant: the message carries the time of the evaluation.
NewAlert_stampedMessage(type, severity, message, rule, value, threshold) ==
    [Type |-> type, Severity |-> severity, Message |-> message \o <<now>>,
     City |-> rule.City, ZipCode |-> rule.ZipCode, Value |-> value,
     Threshold |-> threshold, Timestamp |-> now]

\* Mutant: Value and Threshold are exchanged.
NewAlert_swapped(type, severity, message, rule, value, threshold) ==
    [Type |-> type, Severity |-> severity, Message |-> message, City |-> rule.City,
     ZipCode |-> rule.ZipCode, Value |-> threshold, Threshold |-> value,
     Timestamp |-> now]

NewAlert(type, severity, message, rule, value, threshold) ==
    [Type |-> type, Severity |-> severity, Message |-> message, City |-> rule.City,
     ZipCode |-> rule.ZipCode, Value |-> value, Threshold |-> threshold,
     Timestamp |-> now]

\* Mutant: the high-temperature alert replaces the custom-threshold alert.
evaluateTemperatureAlerts_escalated(weather, rule) ==
    LET temp == weather.Temp IN
       (IF FGe(temp, rule.HighTempAlert)
        THEN <<NewAlert("high_temperature", "critical",
                        <<"High temperature detected">>, rule, temp, rule.HighTempAlert)>>
        ELSE IF FGe(temp, rule.AlertTemp)
        THEN <<NewAlert("temperature", "warning",
                        <<"Temperature reached custom threshold">>, rule, temp, rule.AlertTemp)>>
        ELSE <<>>)
    \o (IF FLe(temp, rule.LowTempAlert)
        THEN <<NewAlert("low_temperature", "warning",
                        <<"Low temperature detected">>, rule, temp, rule.LowTempAlert)>>
        ELSE <<>>)

\* Mutant: the three temperature comparisons are strict.
evaluateTemperatureAlerts_strict(weather, rule) ==
    LET temp == weather.Temp IN
       (IF FGt(temp, rule.AlertTemp)
        THEN <<NewAlert("temperature", "warning",
                        <<"Temperature reached custom threshold">>, rule, temp, rule.AlertTemp)>>
        ELSE <<>>)
    \o (IF FGt(temp, rule.HighTempAlert)
        THEN <<NewAlert("high_temperature", "critical",
                        <<"High temperature detected">>, rule, temp, rule.HighTempAlert)>>
        ELSE <<>>)
    \o (IF FLt(temp, rule.LowTempAlert)
        THEN <<NewAlert("low_temperature", "warning",
                        <<"Low temperature detected">>, rule, temp, rule.LowTempAlert)>>
        ELSE <<>>)

evaluateTemperatureAlerts(weather, rule) ==
    LET temp == weather.Temp IN
       (IF FGe(temp, rule.AlertTemp)
        THEN <<NewAlert("temperature", "warning",
                        <<"Temperature reached custom threshold">>, rule, temp, rule.AlertTemp)>>
        ELSE <<>>)
    \o (IF FGe(temp, rule.HighTempAlert)
        THEN <<NewAlert("high_temperature", "critical",
                        <<"High temperature detected">>, rule, temp, rule.HighTempAlert)>>
        ELSE <<>>)
    \o (IF FLe(temp, rule.LowTempAlert)
        THEN <<NewAlert("low_temperature", "warning",
                        <<"Low temperature detected">>, rule, temp, rule.LowTempAlert)>>
        ELSE <<>>)

evaluateWindAlerts(weather, rule) ==
    LET windSpeed == weather.Speed IN
    IF FGe(windSpeed, rule.WindAlert)
    THEN <<NewAlert("high_wind", "warning", <<"High wind speed detected">>, rule, windSpeed, rule.WindAlert)>>
    ELSE <<>>

\* Mutant: the alert reports the threshold as the observed value.
evaluateHumidityAlerts_valueFromThreshold(weather, rule) ==
    LET humidity == weather.Humidity IN
    IF humidity >= rule.HumidityAlert
    THEN <<NewAlert("high_humidity", "warning", <<"High humidity detected">>, rule,
                    F(rule.HumidityAlert), F(rule.HumidityAlert))>>
    ELSE <<>>

evaluateHumidityAlerts(weather, rule) ==
    LET humidity == weather.Humidity IN
    IF humidity >= rule.HumidityAlert
    THEN <<NewAlert("high_humidity", "warning", <<"High humidity detected">>, rule,
                    F(humidity), F(rule.HumidityAlert))>>
    ELSE <<>>

evaluatePressureAlerts(weather, rule) ==
    LET pressure == weather.Pressure IN
    IF pressure <= rule.PressureAlert
    THEN <<NewAlert("low_pressure", "warning", <<"Low atmospheric pressure detected">>,
                    rule, F(pressure), F(rule.PressureAlert))>>
    ELSE <<>>

\* Mutant: every severe condition has severity warning.
severeConditions_allWarning ==
    [c \in {"Thunderstorm", "Snow", "Rain", "Drizzle"} |-> "warning"]

severeConditions ==
    [c \in {"Thunderstorm", "Snow", "Rain", "Drizzle"} |->
        CASE c = "Thunderstorm" -> "critical"
          [] c = "Snow" -> "warning"
          [] c = "Rain" -> "warning"
          [] c = "Drizzle" -> "info"]

\* Mutant: any entry of the Weather list can raise the alert.
evaluateWeatherConditionAlerts_anyEntry(weather, rule) ==
    LET severe == SelectSeq(weather.Weather, LAMBDA c : c.Main \in DOMAIN severeConditions) IN
    IF severe # <<>>
    THEN <<NewAlert("weather_condition", severeConditions[severe[1].Main],
                    <<"Severe weather condition: %s", severe[1].Main>>, rule, 0, 0)>>
    ELSE <<>>

evaluateWeatherConditionAlerts(weather, rule) ==
    IF Len(weather.Weather) > 0
    THEN LET condition == weather.Weather[1].Main IN
         IF condition \in DOMAIN severeConditions
         THEN <<NewAlert("weather_condition", severeConditions[condition],
                         <<"Severe weather condition: %s", condition>>, rule, 0, 0)>>
         ELSE <<>>
    ELSE <<>>

\* Mutant: no `exists` check, a missing key reads as the zero AlertRule.
EvaluateCurrentWeather_zeroRule(rules, weather, zipCode) ==
    LET rule == IF zipCode \in DOMAIN rules THEN rules[zipCode]
                ELSE [ZipCode |-> "", City |-> "", AlertTemp |-> 0, HighTempAlert |-> 0,
                      LowTempAlert |-> 0, WindAlert |-> 0, HumidityAlert |-> 0,
                      PressureAlert |-> 0]
    IN     evaluateTemperatureAlerts(weather, rule)
        \o evaluateWindAlerts(weather, rule)
        \o evaluateHumidityAlerts(weather, rule)
        \o evaluatePressureAlerts(weather, rule)
        \o evaluateWeatherConditionAlerts(weather, rule)

\* Mutant: the first check that fires ends the evaluation.
EvaluateCurrentWeather_stopAtFirst(rules, weather, zipCode) ==
    IF zipCode \notin DOMAIN rules
    THEN <<>>
    ELSE LET rule == rules[zipCode]
             t == evaluateTemperatureAlerts(weather, rule)
             w == evaluateWindAlerts(weather, rule)
             h == evaluateHumidityAlerts(weather, rule)
             p == evaluatePressureAlerts(weather, rule)
             c == evaluateWeatherConditionAlerts(weather, rule)
         IN  IF t # <<>> THEN t
             ELSE IF w # <<>> THEN w
             ELSE IF h # <<>> THEN h
             ELSE IF p # <<>> THEN p
             ELSE c

EvaluateCurrentWeather(rules, weather, zipCode) ==
    IF zipCode \notin DOMAIN rules
    THEN <<>>
    ELSE LET rule == rules[zipCode] IN
            evaluateTemperatureAlerts(weather, rule)
         \o evaluateWindAlerts(weather, rule)
         \o evaluateHumidityAlerts(weather, rule)
         \o evaluatePressureAlerts(weather, rule)
         \o evaluateWeatherConditionAlerts(weather, rule)

\* Mutant: the conversion leaves the condition list out.
HourlyToCurrent_withoutConditions(hourly) ==
    [Temp |-> hourly.Temp, Pressure |-> hourly.Pressure,
     Humidity |-> hourly.Humidity, Speed |-> hourly.Speed,
     Weather |-> <<>>]

HourlyToCurrent(hourly) ==
    [Temp |-> hourly.Temp, Pressure |-> hourly.Pressure,
     Humidity |-> hourly.Humidity, Speed |-> hourly.Speed,
     Weather |-> hourly.Weather]

EvaluateHourlyWeather(rules, hourly, zipCode) ==
    IF zipCode \notin DOMAIN rules
    THEN <<>>
    ELSE EvaluateCurrentWeather(rules, HourlyToCurrent(hourly), zipCode)

(* ---------------------------- metrics sink ----------------------------- *)
EmptyMap == [x \in {} |-> 0]

NewWeatherMetrics ==
    [temperatureCelsius |-> EmptyMap, humidityPercent |-> EmptyMap,
     windSpeedMps |-> EmptyMap, pressureHpa |-> EmptyMap,
     forecastTemperature |-> EmptyMap, forecastHumidity |-> EmptyMap,
     forecastWindSpeed |-> EmptyMap, forecastPressure |-> EmptyMap,
     alertValue |-> EmptyMap, alertThreshold |-> EmptyMap,
     calls |-> <<>>]

\* One entry of the call log of the sink; n is the number of the envelope
\* whose processing made the call (0: not made by the consumption loop).
Call(n, op, city, type, severity, temp, humidity, windSpeed, pressure, timestamp, value, threshold) ==
    [n |-> n, op |-> op, city |-> city, type |-> type, severity |-> severity,
     temp |-> temp, humidity |-> humidity, windSpeed |-> windSpeed,
     pressure |-> pressure, timestamp |-> timestamp,
     value |-> value, threshold |-> threshold]

FormatForecastTime(timestamp) == <<"2006-01-02T15:04:05", timestamp>>

UpdateCurrentWeatherMetrics(wm, n, city, temp, humidity, windSpeed, pressure) ==
    LET zipCode == "unknown" IN
    [wm EXCEPT
       !.temperatureCelsius = MapPut(@, <<city, zipCode>>, temp),
       !.humidityPercent = MapPut(@, <<city, zipCode>>, humidity),
       !.windSpeedMps = MapPut(@, <<city, zipCode>>, windSpeed),
       !.pressureHpa = MapPut(@, <<city, zipCode>>, pressure),
       !.calls = Append(@, Call(n, "UpdateCurrentWeatherMetrics", city, "", "",
                                temp, humidity, windSpeed, pressure, 0, 0, 0))]

UpdateForecastWeatherMetrics(wm, n, city, temp, humidity, windSpeed, pressure, timestamp) ==
    LET zipCode == "unknown"
        forecastTime == FormatForecastTime(timestamp) IN
    [wm EXCEPT
       !.forecastTemperature = MapPut(@, <<city, zipCode, forecastTime>>, temp),
       !.forecastHumidity = MapPut(@, <<city, zipCode, forecastTime>>, humidity),
       !.forecastWindSpeed = MapPut(@, <<city, zipCode, forecastTime>>, windSpeed),
       !.forecastPressure = MapPut(@, <<city, zipCode, forecastTime>>, pressure),
       !.calls = Append(@, Call(n, "UpdateForecastWeatherMetrics", city, "", "",
                                temp, humidity, windSpeed, pressure, timestamp, 0, 0))]

UpdateAlertMetrics(wm, n, city, type, severity, value, threshold) ==
    [wm EXCEPT
       !.alertValue = MapPut(@, <<city, type, severity>>, value),
       !.alertThreshold = MapPut(@, <<city, type, severity>>, threshold),
       !.calls = Append(@, Call(n, "UpdateAlertMetrics", city, type, severity,
                                0, 0, 0, 0, 0, value, threshold))]

\* Mutant: the injection writes the series of the consumption loop.
SetTestTemperature_loopSeries(wm, city, temperature) ==
    LET zipCode == "unknown" IN
    [wm EXCEPT
       !.temperatureCelsius = MapPut(@, <<city, zipCode>>, temperature),
       !.calls = Append(@, Call(0, "SetTestTemperature", city, "", "",
                                temperature, 0, 0, 0, 0, 0, 0))]

SetTestTemperature(wm, city, temperature) ==
    LET zipCode == "test" IN
    [wm EXCEPT
       !.temperatureCelsius = MapPut(@, <<city, zipCode>>, temperature),
       !.calls = Append(@, Call(0, "SetTestTemperature", city, "", "",
                                temperature, 0, 0, 0, 0, 0, 0))]

(* ------------------------------- HTTP API ------------------------------ *)
\* A request body as the decoder sees it: `first` is what the first JSON value
\* of the body unmarshals to (Nil: there is none, it is not valid JSON, or a
\* field has the wrong type; a missing field reads as its zero value), `rest`
\* is the text that follows that value.
Body(first, rest) == [first |-> first, rest |-> rest]

\* json.NewDecoder(r.Body).Decode(&req): decodes the first JSON value and
\* does not look at what follows it.
Decode(body) ==
    IF body.first = Nil
    THEN [err |-> "decode", req |-> [City |-> "", Temperature |-> 0]]
    ELSE [err |-> "nil", req |-> body.first[1]]

\* What the handler writes: the status code and the WeatherResponse.
Response(status, success, message, data, error) ==
    [status |-> status, Success |-> success, Message |-> message, Data |-> data,
     Error |-> error]

sendErrorResponse(message, statusCode) == Response(statusCode, FALSE, <<>>, <<>>, message)

healthCheck ==
    Response(200, TRUE, <<"Weather Consumer API is healthy">>,
             <<now, "1.0.0", "weather-consumer">>, "")

getMetrics ==
    Response(200, TRUE, <<"Metrics endpoint available">>,
             <<"/metrics", "Prometheus metrics are available at /metrics endpoint">>, "")

\* Mutant: the injected temperature is checked against the rule of the city
\* and the alert is forwarded to the sink.
setTestTemperature_evaluates(wm, rules, body) ==
    IF Decode(body).err # "nil"
    THEN [resp |-> sendErrorResponse("Invalid request body", 400), wm |-> wm]
    ELSE LET req == Decode(body).req IN
         IF req.City = ""
         THEN [resp |-> sendErrorResponse("city is required", 400), wm |-> wm]
         ELSE LET wm1 == SetTestTemperature(wm, req.City, req.Temperature)
                  hit == {z \in DOMAIN rules : /\ rules[z].City = req.City
                                               /\ FGe(req.Temperature, rules[z].AlertTemp)}
              IN  [resp |-> Response(200, TRUE,
                                     <<"Test temperature set for %s: %.1f", req.City,
                                       req.Temperature>>,
                                     <<req.City, req.Temperature>>, ""),
                   wm |-> IF hit = {} THEN wm1
                          ELSE LET rule == rules[CHOOSE z \in hit : TRUE] IN
                               UpdateAlertMetrics(wm1, 0, req.City, "temperature",
                                                  "warning", req.Temperature,
                                                  rule.AlertTemp)]

\* rules is the registry reachable through api.consumer, which the handler
\* does not use.
setTestTemperature(wm, rules, body) ==
    IF Decode(body).err # "nil"
    THEN [resp |-> sendErrorResponse("Invalid request body", 400), wm |-> wm]
    ELSE LET req == Decode(body).req IN
         IF req.City = ""
         THEN [resp |-> sendErrorResponse("city is required", 400), wm |-> wm]
         ELSE [resp |-> Response(200, TRUE,
                                 <<"Test temperature set for %s: %.1f", req.City,
                                   req.Temperature>>,
                                 <<req.City, req.Temperature>>, ""),
               wm |-> SetTestTemperature(wm, req.City, req.Temperature)]

(* ----------------------------- dispatcher ------------------------------ *)
Result(e, wm) == [err |-> e, wm |-> wm]

AlertCall(n, alert) ==
    Call(n, "UpdateAlertMetrics", alert.City, alert.Type, alert.Severity,
         0, 0, 0, 0, 0, alert.Value, alert.Threshold)

Reverse(s) == [k \in 1..Len(s) |-> s[Len(s) + 1 - k]]

\* Mutant: the alerts are forwarded last to first.
processAlerts_reversed(wm, n, weatherAlerts) ==
    [wm EXCEPT !.calls = @ \o [k \in 1..Len(weatherAlerts) |->
                                  AlertCall(n, Reverse(weatherAlerts)[k])]]

\* Mutant: the alert updates overtake the updates already made.
processAlerts_overtaking(wm, n, weatherAlerts) ==
    [wm EXCEPT !.calls = [k \in 1..Len(weatherAlerts) |->
                             AlertCall(n, weatherAlerts[k])] \o @]

RECURSIVE processAlerts(_, _, _)
processAlerts(wm, n, weatherAlerts) ==
    IF weatherAlerts = <<>>
    THEN wm
    ELSE LET alert == Head(weatherAlerts) IN
         processAlerts(UpdateAlertMetrics(wm, n, alert.City, alert.Type, alert.Severity,
                                          alert.Value, alert.Threshold),
                       n, Tail(weatherAlerts))

\* Mutant: the metrics are updated before the nil check.
processCurrentWeather_updateFirst(wm, rules, m, n) ==
    IF m.Current = Nil
    THEN Result("current weather data is nil",
                UpdateCurrentWeatherMetrics(wm, n, m.City, 0, 0, 0, 0))
    ELSE LET cur == m.Current[1]
             wm1 == UpdateCurrentWeatherMetrics(wm, n, m.City, cur.Temp, F(cur.Humidity),
                                                cur.Speed, F(cur.Pressure))
             alerts == EvaluateCurrentWeather(rules, cur, m.ZipCode)
         IN  Result("nil", processAlerts(wm1, n, alerts))

processCurrentWeather(wm, rules, m, n) ==
    IF m.Current = Nil
    THEN Result("current weather data is nil", wm)
    ELSE LET cur == m.Current[1]
             wm1 == UpdateCurrentWeatherMetrics(wm, n, m.City, cur.Temp, F(cur.Humidity),
                                                cur.Speed, F(cur.Pressure))
             alerts == EvaluateCurrentWeather(rules, cur, m.ZipCode)
         IN  Result("nil", processAlerts(wm1, n, alerts))

RECURSIVE forecastItems(_, _, _, _)
forecastItems(wm, n, city, list) ==
    IF list = <<>>
    THEN wm
    ELSE LET item == Head(list) IN
         forecastItems(UpdateForecastWeatherMetrics(wm, n, city, item.Temp, F(item.Humidity),
                                                    item.Speed, F(item.Pressure), item.Dt),
                       n, city, Tail(list))

processForecastWeather(wm, rules, m, n) ==
    IF m.Forecast = Nil
    THEN Result("forecast weather data is nil", wm)
    ELSE Result("nil", forecastItems(wm, n, m.City, m.Forecast[1].List))

processHourlyWeather(wm, rules, m, n) ==
    IF m.Hourly = Nil
    THEN Result("hourly weather data is nil", wm)
    ELSE LET hr == m.Hourly[1]
             wm1 == UpdateForecastWeatherMetrics(wm, n, m.City, hr.Temp, F(hr.Humidity),
                                                 hr.Speed, F(hr.Pressure), hr.Dt)
             alerts == EvaluateHourlyWeather(rules, hr, m.ZipCode)
         IN  Result("nil", processAlerts(wm1, n, alerts))

\* Mutant: the daily summary is represented by its maximum temperature.
processDailyWeather_maxTemperature(wm, rules, m, n) ==
    IF m.Daily = Nil
    THEN Result("daily weather data is nil", wm)
    ELSE LET d == m.Daily[1] IN
         Result("nil", UpdateCurrentWeatherMetrics(wm, n, m.City, d.TempMax, F(d.Humidity),
                                                   d.WindSpeed, DefaultDailyPressure))

\* Mutant: the daily summary is evaluated like a current reading.
processDailyWeather_evaluates(wm, rules, m, n) ==
    IF m.Daily = Nil
    THEN Result("daily weather data is nil", wm)
    ELSE LET d == m.Daily[1]
             wm1 == UpdateCurrentWeatherMetrics(wm, n, m.City, d.TempAvg, F(d.Humidity),
                                                d.WindSpeed, DefaultDailyPressure)
             w == [Temp |-> d.TempAvg, Pressure |-> 1013, Humidity |-> d.Humidity,
                   Speed |-> d.WindSpeed, Weather |-> <<>>]
         IN  Result("nil", processAlerts(wm1, n, EvaluateCurrentWeather(rules, w, m.ZipCode)))

processDailyWeather(wm, rules, m, n) ==
    IF m.Daily = Nil
    THEN Result("daily weather data is nil", wm)
    ELSE LET d == m.Daily[1] IN
         Result("nil", UpdateCurrentWeatherMetrics(wm, n, m.City, d.TempAvg, F(d.Humidity),
                                                   d.WindSpeed, DefaultDailyPressure))

\* m.ok is whether json.Unmarshal accepts the bytes of the Kafka message.
processMessage(wm, rules, m, n) ==
    IF ~m.ok
    THEN Result("failed to unmarshal message", wm)
    ELSE CASE m.MessageType = "current" -> processCurrentWeather(wm, rules, m, n)
           [] m.MessageType = "forecast" -> processForecastWeather(wm, rules, m, n)
           [] m.MessageType = "hourly" -> processHourlyWeather(wm, rules, m, n)
           [] m.MessageType = "daily" -> processDailyWeather(wm, rules, m, n)
           [] OTHER -> Result("unknown message type", wm)

\* Where StartConsuming goes after a failed ReadMessage (log, continue) and
\* after processMessage returned e (log if not nil, next iteration).
\* Mutant: a failed receive ends the loop.
LoopAfterReadError_fatal == "exit"

LoopAfterReadError == "read"

\* Mutant: a failed processMessage ends the loop.
LoopAfterProcess_exitOnError(e) == IF e = "nil" THEN "read" ELSE "exit"

LoopAfterProcess(e) == "read"

(* ------------------------------- inputs -------------------------------- *)
\* A line of input.txt after strings.Split(line, ","): the zip code field as
\* text, each numeric field as what strconv makes of it, Num(v) when it
\* converts to v and NotNum when strconv returns an error. A temperature or
\* wind field "NaN" converts to NaN.
Num(v) == <<v>>

NotNum == <<>>

Line(zip, days, temp, wind, humidity) ==
    <<zip, Num(days), Num(temp), Num(wind), Num(humidity)>>

InputLines ==
    { Line("12601", 4, F(10), F(15), 85),
      Line("12601", 2, F(20), F(10), 80),
      Line("10001", 3, F(15), F(20), 90),
      Line("12601", 3, NaN, F(15), 85),
      Line("90210", 2, F(61), F(10), 80),
      Line("90210", 6, F(20), F(10), 80),
      Line("90210", 2, F(20), F(101), 80),
      Line("90210", 2, F(20), F(10), 101),
      <<"90210", Num(2), Num(F(20)), Num(F(10))>> }

\* The characters of the texts used as first field of a line.
Runes(s) ==
    CASE s = "12601" -> <<"1", "2", "6", "0", "1">>
      [] s = "10001" -> <<"1", "0", "0", "0", "1">>
      [] s = "90210" -> <<"9", "0", "2", "1", "0">>
      [] s = "1260" -> <<"1", "2", "6", "0">>
      [] s = "1260a" -> <<"1", "2", "6", "0", "a">>
      [] s = "12601-1234" -> <<"1", "2", "6", "0", "1", "-", "1", "2", "3", "4">>
      [] s = "12601_1234" -> <<"1", "2", "6", "0", "1", "_", "1", "2", "3", "4">>
      [] s = "12601-12a4" -> <<"1", "2", "6", "0", "1", "-", "1", "2", "a", "4">>
      [] s = "# zip" -> <<"#", " ", "z", "i", "p">>
      [] s = "" -> <<>>

Digits == {"0", "1", "2", "3", "4", "5", "6", "7", "8", "9"}

validateZipCode(zipCode) ==
    LET r == Runes(zipCode) IN
    IF r = <<>>
    THEN "zip code cannot be empty"
    ELSE IF Len(r) = 5
    THEN IF \E i \in 1..5 : r[i] \notin Digits
         THEN "contains non-numeric characters"
         ELSE "nil"
    ELSE IF Len(r) = 10 /\ r[6] = "-"
    THEN IF \E i \in (1..10) \ {6} : r[i] \notin Digits
         THEN "contains non-numeric characters"
         ELSE "nil"
    ELSE "is not a valid US zip code format"

Rejected(e) == [err |-> e, req |-> Nil]

\* A WeatherRequest is <<ZipCode, AlertTemp, AlertWind, AlertHumidity, Days>>.

parseLine(parts) ==
    IF Len(parts) # 5
    THEN Rejected("invalid format")
    ELSE LET zipCode == parts[1] IN
         IF validateZipCode(zipCode) # "nil"
         THEN Rejected("invalid zip code")
         ELSE IF parts[2] = NotNum
         THEN Rejected("invalid days value: must be a number")
         ELSE LET days == parts[2][1] IN
         IF days < 1 \/ days > 5
         THEN Rejected("invalid days value")
         ELSE IF parts[3] = NotNum
         THEN Rejected("invalid temperature threshold: must be a number")
         ELSE LET alertTemp == parts[3][1] IN
         IF FLt(alertTemp, F(-50)) \/ FGt(alertTemp, F(60))
         THEN Rejected("invalid temperature threshold")
         ELSE IF parts[4] = NotNum
         THEN Rejected("invalid wind threshold: must be a number")
         ELSE LET alertWind == parts[4][1] IN
         IF FLt(alertWind, F(0)) \/ FGt(alertWind, F(100))
         THEN Rejected("invalid wind threshold")
         ELSE IF parts[5] = NotNum
         THEN Rejected("invalid humidity threshold: must be a number")
         ELSE LET alertHumidity == parts[5][1] IN
         IF alertHumidity < 0 \/ alertHumidity > 100
         THEN Rejected("invalid humidity threshold")
         ELSE [err |-> "nil",
               req |-> Ptr(<<zipCode, alertTemp, alertWind, alertHumidity, days>>)]

\* The requests parseLine accepts: <<zip, temp, wind, humidity>>.
Requests == { parseLine(l).req[1] : l \in { x \in InputLines : parseLine(x).err = "nil" } }

\* ParseInputFile on the lines of the file: blank lines and comments are
\* skipped, the first line parseLine rejects ends the parse with an error and
\* no requests, and so does a file without entries.
IsSkipped(line) == line = <<"">> \/ (Runes(line[1]) # <<>> /\ Runes(line[1])[1] = "#")

RECURSIVE ParseFrom(_, _)
ParseFrom(lines, parsed) ==
    IF lines = <<>>
    THEN IF parsed = <<>>
         THEN [requests |-> <<>>, err |-> "no valid entries found in input file"]
         ELSE [requests |-> parsed, err |-> "nil"]
    ELSE LET line == Head(lines) IN
         IF IsSkipped(line)
         THEN ParseFrom(Tail(lines), parsed)
         ELSE LET r == parseLine(line) IN
              IF r.err # "nil"
              THEN [requests |-> <<>>, err |-> "failed to parse line"]
              ELSE ParseFrom(Tail(lines), Append(parsed, r.req[1]))

ParseInputFile(file) == ParseFrom(file, <<>>)

Hot ==
    [Temp |-> F(21), Pressure |-> 1013, Humidity |-> 90, Speed |-> F(20),
     Weather |-> <<[Main |-> "Thunderstorm", Description |-> "thunderstorm with rain"]>>]

Cold ==
    [Temp |-> F(5), Pressure |-> 990, Humidity |-> 40, Speed |-> F(5),
     Weather |-> <<>>]

Item(dt, w) ==
    [Dt |-> dt, Temp |-> w.Temp, Pressure |-> w.Pressure, Humidity |-> w.Humidity,
     Speed |-> w.Speed, Weather |-> w.Weather]

HotDay ==
    [Day |-> 3, TempMin |-> F(18), TempMax |-> F(26), TempAvg |-> F(22),
     Humidity |-> 95, WindSpeed |-> F(25)]

Envelope(ok, type, zipCode, city, current, fc, hourly, daily) ==
    [ok |-> ok, MessageType |-> type, ZipCode |-> zipCode, City |-> city,
     Current |-> current, Forecast |-> fc, Hourly |-> hourly, Daily |-> daily]

\* Monitored (12601) and unmonitored (90210) locations of the envelopes.
Locations == { <<"12601", "Poughkeepsie">>, <<"90210", "Beverly Hills">> }

MalformedEnvelopes ==
    { Envelope(FALSE, "", "", "", Nil, Nil, Nil, Nil),
      Envelope(TRUE, "", "12601", "Poughkeepsie", Ptr(Hot), Nil, Nil, Nil),
      Envelope(TRUE, "weekly", "12601", "Poughkeepsie", Ptr(Hot), Nil, Nil, Nil),
      Envelope(TRUE, "current", "12601", "Poughkeepsie", Nil, Nil, Ptr(Item(1, Hot)), Nil),
      Envelope(TRUE, "hourly", "12601", "Poughkeepsie", Ptr(Hot), Nil, Nil, Nil),
      Envelope(TRUE, "forecast", "12601", "Poughkeepsie", Ptr(Hot), Nil, Nil, Nil),
      Envelope(TRUE, "daily", "12601", "Poughkeepsie", Ptr(Hot), Nil, Nil, Nil) }

CurrentEnvelopes ==
    { Envelope(TRUE, "current", l[1], l[2], Ptr(w), Nil, Nil, Nil) :
        l \in Locations, w \in {Hot, Cold} }

HourlyEnvelopes ==
    { Envelope(TRUE, "hourly", l[1], l[2], Nil, Nil, Ptr(Item(1, Hot)), Nil) :
        l \in Locations }

ForecastEnvelopes ==
    { Envelope(TRUE, "forecast", "12601", "Poughkeepsie", Nil,
               Ptr([List |-> list]), Nil, Nil) :
        list \in { <<>>, <<Item(1, Hot), Item(2, Cold)>> } }

DailyEnvelopes ==
    { Envelope(TRUE, "daily", "12601", "Poughkeepsie", Nil, Nil, Nil, Ptr(HotDay)) }

WellFormedEnvelopes ==
    CurrentEnvelopes \cup HourlyEnvelopes \cup ForecastEnvelopes \cup DailyEnvelopes

Envelopes == MalformedEnvelopes \cup WellFormedEnvelopes

(* ------------------------------- actions ------------------------------- *)
Init ==
    /\ phase = "startup"
    /\ alertRules = EmptyMap
    /\ nAdded = 0
    /\ firstAdd = EmptyMap
    /\ lastAdd = EmptyMap
    /\ evalIn = Nil
    /\ evalOut = <<>>
    /\ evalAgain = Nil
    /\ now = 0
    /\ httpReq = Nil
    /\ parseIn = Nil
    /\ parseOut = Nil
    /\ pending = <<>>
    /\ inflight = <<>>
    /\ lastSet = EmptyMap
    /\ httpResp = Nil
    /\ nRequests = 0
    /\ pc = "read"
    /\ msg = Nil
    /\ err = "nil"
    /\ metrics = NewWeatherMetrics
    /\ received = 0
    /\ processed = 0
    /\ readErrors = 0
    /\ stream = <<>>
    /\ outcomes = <<>>
    /\ requests = <<>>
    /\ reqIndex = 0
    /\ ppc = "parse"
    /\ forecast = Nil
    /\ hourlyCount = 0
    /\ sent = <<>>
    /\ returned = <<>>

\* Mutant: the evaluator is initialized while the goroutines already run.
CanAddRule_concurrent == phase \in {"startup", "running"}

\* main calls initializeAlertEvaluator before it starts the goroutines.
CanAddRule == phase = "startup"

\* One iteration of the loop of initializeAlertEvaluator over the requests.
InitializeAddRule(req) ==
    /\ CanAddRule
    /\ nAdded < MaxRules
    /\ alertRules' = AddAlertRule(alertRules, req[1], getCityNameFromZipCode(req[1]),
                                  req[2], req[3], req[4])
    /\ firstAdd' = IF req[1] \in DOMAIN firstAdd THEN firstAdd
                    ELSE MapPut(firstAdd, req[1], req)
    /\ lastAdd' = MapPut(lastAdd, req[1], req)
    /\ nAdded' = nAdded + 1
    /\ UNCHANGED <<parseIn, parseOut>>
    /\ UNCHANGED producerVars
    /\ UNCHANGED <<evalAgain, now, httpReq, httpResp, nRequests, pending, inflight, lastSet>>
    /\ UNCHANGED <<phase, pc, msg, err, metrics, evalIn, evalOut, received,
                   processed, readErrors, stream, outcomes>>

\* main: the evaluator is complete, then `go consumer.StartConsuming()`.
StartConsuming ==
    /\ phase = "startup"
    /\ phase' = "running"
    /\ UNCHANGED <<parseIn, parseOut>>
    /\ UNCHANGED producerVars
    /\ UNCHANGED <<evalAgain, now, httpReq, httpResp, nRequests, pending, inflight, lastSet>>
    /\ UNCHANGED <<alertRules, nAdded, firstAdd, lastAdd, pc, msg, err, metrics,
                   evalIn, evalOut, received, processed, readErrors, stream, outcomes>>

\* reader.ReadMessage returns the next envelope of the stream.
ReadMessage(e) ==
    /\ phase = "running"
    /\ pc = "read"
    /\ received < MaxMsgs
    /\ msg' = Ptr(e)
    /\ err' = "nil"
    /\ received' = received + 1
    /\ stream' = Append(stream, e)
    /\ pc' = "process"
    /\ UNCHANGED <<parseIn, parseOut>>
    /\ UNCHANGED producerVars
    /\ UNCHANGED <<evalAgain, now, httpReq, httpResp, nRequests, pending, inflight, lastSet>>
    /\ UNCHANGED <<phase, alertRules, nAdded, firstAdd, lastAdd, metrics, evalIn,
                   evalOut, processed, readErrors, outcomes>>

\* reader.ReadMessage returns an error.
ReadMessageError ==
    /\ phase = "running"
    /\ pc = "read"
    /\ readErrors < MaxReadErrors
    /\ err' = "read"
    /\ readErrors' = readErrors + 1
    /\ pc' = LoopAfterReadError
    /\ UNCHANGED <<parseIn, parseOut>>
    /\ UNCHANGED producerVars
    /\ UNCHANGED <<evalAgain, now, httpReq, httpResp, nRequests, pending, inflight, lastSet>>
    /\ UNCHANGED <<phase, alertRules, nAdded, firstAdd, lastAdd, msg, metrics,
                   evalIn, evalOut, received, processed, stream, outcomes>>

\* err = kc.processMessage(msg), and the end of the iteration.
ProcessMessage ==
    /\ phase = "running"
    /\ pc = "process"
    /\ LET r == processMessage(metrics, alertRules, msg[1], processed + 1) IN
         /\ metrics' = r.wm
         /\ err' = r.err
         /\ outcomes' = Append(outcomes, r.err)
         /\ pc' = LoopAfterProcess(r.err)
    /\ msg' = Nil
    /\ processed' = processed + 1
    /\ UNCHANGED <<parseIn, parseOut>>
    /\ UNCHANGED producerVars
    /\ UNCHANGED <<evalAgain, now, httpReq, httpResp, nRequests, pending, inflight, lastSet>>
    /\ UNCHANGED <<phase, alertRules, nAdded, firstAdd, lastAdd, evalIn, evalOut,
                   received, readErrors, stream>>

Next ==
    \/ \E req \in Requests : InitializeAddRule(req)
    \/ StartConsuming
    \/ \E e \in Envelopes : ReadMessage(e)
    \/ ReadMessageError
    \/ ProcessMessage

Spec == Init /\ [][Next]_vars

\* Streams over fewer envelopes, for the behaviours of the loop over time.
LiveEnvelopes ==
    { Envelope(FALSE, "", "", "", Nil, Nil, Nil, Nil),
      Envelope(TRUE, "weekly", "12601", "Poughkeepsie", Ptr(Hot), Nil, Nil, Nil),
      Envelope(TRUE, "current", "12601", "Poughkeepsie", Nil, Nil, Ptr(Item(1, Hot)), Nil),
      Envelope(TRUE, "current", "12601", "Poughkeepsie", Ptr(Hot), Nil, Nil, Nil),
      Envelope(TRUE, "hourly", "90210", "Beverly Hills", Nil, Nil, Ptr(Item(1, Hot)), Nil),
      Envelope(TRUE, "daily", "12601", "Poughkeepsie", Nil, Nil, Nil, Ptr(HotDay)) }

NextLive ==
    \/ \E req \in Requests : InitializeAddRule(req)
    \/ StartConsuming
    \/ \E e \in LiveEnvelopes : ReadMessage(e)
    \/ ReadMessageError
    \/ ProcessMessage

\* The stream keeps yielding envelopes (up to MaxMsgs) and the goroutine of
\* the loop keeps being scheduled.
SpecLive ==
    /\ Init
    /\ [][NextLive]_vars
    /\ WF_vars(StartConsuming)
    /\ WF_vars(\E e \in LiveEnvelopes : ReadMessage(e))
    /\ WF_vars(ProcessMessage)

(* ------------------------- the HTTP API at work ------------------------ *)
\* Bodies of POST /test/temperature.
TestBodies ==
    { Body(Nil, <<>>),
      Body(Ptr([City |-> "", Temperature |-> F(25)]), <<>>),
      Body(Ptr([City |-> "Poughkeepsie", Temperature |-> F(25)]), <<>>),
      Body(Ptr([City |-> "Poughkeepsie", Temperature |-> F(5)]), <<>>),
      Body(Ptr([City |-> "Atlantis", Temperature |-> F(30)]), <<>>),
      Body(Ptr([City |-> "Poughkeepsie", Temperature |-> F(25)]), <<"}">>) }

\* The server goroutine serves GET /health.
HealthCheck ==
    /\ phase = "running"
    /\ nRequests < MaxRequests
    /\ httpReq' = Ptr([route |-> "GET /health", body |-> Nil])
    /\ httpResp' = Ptr(healthCheck)
    /\ nRequests' = nRequests + 1
    /\ UNCHANGED <<parseIn, parseOut>>
    /\ UNCHANGED producerVars
    /\ UNCHANGED <<pending, inflight, lastSet>>
    /\ UNCHANGED <<phase, alertRules, pc, msg, err, metrics, evalIn, evalOut, evalAgain,
                   now, nAdded, firstAdd, lastAdd, received, processed, readErrors,
                   stream, outcomes>>

\* The server goroutine serves GET /metrics.
GetMetrics ==
    /\ phase = "running"
    /\ nRequests < MaxRequests
    /\ httpReq' = Ptr([route |-> "GET /metrics", body |-> Nil])
    /\ httpResp' = Ptr(getMetrics)
    /\ nRequests' = nRequests + 1
    /\ UNCHANGED <<parseIn, parseOut>>
    /\ UNCHANGED producerVars
    /\ UNCHANGED <<pending, inflight, lastSet>>
    /\ UNCHANGED <<phase, alertRules, pc, msg, err, metrics, evalIn, evalOut, evalAgain,
                   now, nAdded, firstAdd, lastAdd, received, processed, readErrors,
                   stream, outcomes>>

\* The server goroutine serves POST /test/temperature.
SetTestTemperatureRequest(body) ==
    /\ phase = "running"
    /\ nRequests < MaxRequests
    /\ httpReq' = Ptr([route |-> "POST /test/temperature", body |-> Ptr(body)])
    /\ LET r == setTestTemperature(metrics, alertRules, body) IN
         /\ httpResp' = Ptr(r.resp)
         /\ metrics' = r.wm
    /\ nRequests' = nRequests + 1
    /\ UNCHANGED <<parseIn, parseOut>>
    /\ UNCHANGED producerVars
    /\ UNCHANGED <<pending, inflight, lastSet>>
    /\ UNCHANGED <<phase, alertRules, pc, msg, err, evalIn, evalOut, evalAgain,
                   now, nAdded, firstAdd, lastAdd, received, processed, readErrors,
                   stream, outcomes>>

NextApi ==
    \/ \E req \in Requests : InitializeAddRule(req)
    \/ StartConsuming
    \/ \E e \in LiveEnvelopes : ReadMessage(e)
    \/ ReadMessageError
    \/ ProcessMessage
    \/ HealthCheck
    \/ GetMetrics
    \/ \E body \in TestBodies : SetTestTemperatureRequest(body)

SpecApi == Init /\ [][NextApi]_vars

(* ------------- the loop and the injections, one Set at a time ---------- *)
\* The requests, envelopes and request bodies of the interleavings.
ConcRequests == {req \in Requests : req[1] = "12601" /\ req[2] = F(10)}

ConcEnvelopes ==
    { Envelope(FALSE, "", "", "", Nil, Nil, Nil, Nil),
      Envelope(TRUE, "current", "12601", "Poughkeepsie", Ptr(Cold), Nil, Nil, Nil),
      Envelope(TRUE, "daily", "12601", "Poughkeepsie", Nil, Nil, Nil, Ptr(HotDay)) }

ConcBodies ==
    { Body(Nil, <<>>),
      Body(Ptr([City |-> "Poughkeepsie", Temperature |-> F(25)]), <<>>),
      Body(Ptr([City |-> "Poughkeepsie", Temperature |-> F(5)]), <<>>) }

\* One Set on a series of a gauge vector.
Op(gauge, series, value) == [gauge |-> gauge, series |-> series, value |-> value]

\* The Sets that one call of the sink makes, in the order of its statements.
SetsOf(c) ==
    CASE c.op = "UpdateCurrentWeatherMetrics" ->
           <<Op("temperatureCelsius", <<c.city, "unknown">>, c.temp),
             Op("humidityPercent", <<c.city, "unknown">>, c.humidity),
             Op("windSpeedMps", <<c.city, "unknown">>, c.windSpeed),
             Op("pressureHpa", <<c.city, "unknown">>, c.pressure)>>
      [] c.op = "UpdateForecastWeatherMetrics" ->
           LET forecastTime == FormatForecastTime(c.timestamp) IN
           <<Op("forecastTemperature", <<c.city, "unknown", forecastTime>>, c.temp),
             Op("forecastHumidity", <<c.city, "unknown", forecastTime>>, c.humidity),
             Op("forecastWindSpeed", <<c.city, "unknown", forecastTime>>, c.windSpeed),
             Op("forecastPressure", <<c.city, "unknown", forecastTime>>, c.pressure)>>
      [] c.op = "UpdateAlertMetrics" ->
           <<Op("alertValue", <<c.city, c.type, c.severity>>, c.value),
             Op("alertThreshold", <<c.city, c.type, c.severity>>, c.threshold)>>
      [] OTHER -> <<>>

RECURSIVE SetsOfAll(_)
SetsOfAll(calls) ==
    IF calls = <<>> THEN <<>> ELSE SetsOf(Head(calls)) \o SetsOfAll(Tail(calls))

\* Mutant: a Set on a series that exists already is dropped.
GaugeSet_ifAbsent(wm, op) ==
    IF op.series \in DOMAIN wm[op.gauge]
    THEN wm
    ELSE [wm EXCEPT ![op.gauge] = MapPut(@, op.series, op.value)]

\* gaugeVec.WithLabelValues(series...).Set(value), atomic in the client library.
GaugeSet(wm, op) == [wm EXCEPT ![op.gauge] = MapPut(@, op.series, op.value)]

\* processMessage up to its first Set: decoding, routing, evaluation; the
\* Sets its sink calls make are still to come.
BeginProcess ==
    /\ phase = "running"
    /\ pc = "process"
    /\ LET r == processMessage(metrics, alertRules, msg[1], processed + 1)
           made == SubSeq(r.wm.calls, Len(metrics.calls) + 1, Len(r.wm.calls))
       IN  /\ pending' = SetsOfAll(made)
           /\ metrics' = [metrics EXCEPT !.calls = r.wm.calls]
           /\ err' = r.err
    /\ pc' = "apply"
    /\ UNCHANGED <<parseIn, parseOut>>
    /\ UNCHANGED producerVars
    /\ UNCHANGED <<phase, alertRules, msg, evalIn, evalOut, evalAgain, now, httpReq,
                   httpResp, nRequests, inflight, lastSet, nAdded, firstAdd, lastAdd,
                   received, processed, readErrors, stream, outcomes>>

\* The loop makes its next Set.
ApplySet ==
    /\ phase = "running"
    /\ pc = "apply"
    /\ pending # <<>>
    /\ metrics' = GaugeSet(metrics, Head(pending))
    /\ lastSet' = MapPut(lastSet, <<Head(pending).gauge, Head(pending).series>>,
                         Head(pending).value)
    /\ pending' = Tail(pending)
    /\ UNCHANGED <<parseIn, parseOut>>
    /\ UNCHANGED producerVars
    /\ UNCHANGED <<phase, alertRules, pc, msg, err, evalIn, evalOut, evalAgain, now,
                   httpReq, httpResp, nRequests, inflight, nAdded, firstAdd, lastAdd,
                   received, processed, readErrors, stream, outcomes>>

\* processMessage returns, and the iteration of the loop ends.
EndProcess ==
    /\ phase = "running"
    /\ pc = "apply"
    /\ pending = <<>>
    /\ outcomes' = Append(outcomes, err)
    /\ pc' = LoopAfterProcess(err)
    /\ msg' = Nil
    /\ processed' = processed + 1
    /\ UNCHANGED <<parseIn, parseOut>>
    /\ UNCHANGED producerVars
    /\ UNCHANGED <<phase, alertRules, err, metrics, evalIn, evalOut, evalAgain, now,
                   httpReq, httpResp, nRequests, pending, inflight, lastSet, nAdded,
                   firstAdd, lastAdd, received, readErrors, stream>>

\* The server accepts a POST /test/temperature and starts a goroutine for it.
AcceptInjection(body) ==
    /\ phase = "running"
    /\ nRequests < MaxInjections
    /\ inflight' = Append(inflight, body)
    /\ nRequests' = nRequests + 1
    /\ UNCHANGED <<parseIn, parseOut>>
    /\ UNCHANGED producerVars
    /\ UNCHANGED <<phase, alertRules, pc, msg, err, metrics, evalIn, evalOut,
                   evalAgain, now, httpReq, httpResp, pending, lastSet, nAdded,
                   firstAdd, lastAdd, received, processed, readErrors, stream, outcomes>>

\* One of the request goroutines runs its handler.
ServeInjection(i) ==
    /\ phase = "running"
    /\ i \in 1..Len(inflight)
    /\ LET body == inflight[i]
           r == setTestTemperature(metrics, alertRules, body)
       IN  /\ httpReq' = Ptr([route |-> "POST /test/temperature", body |-> Ptr(body)])
           /\ httpResp' = Ptr(r.resp)
           /\ metrics' = r.wm
           /\ lastSet' = IF r.resp.status = 200
                         THEN MapPut(lastSet, <<"temperatureCelsius",
                                                <<body.first[1].City, "test">>>>,
                                     body.first[1].Temperature)
                         ELSE lastSet
    /\ inflight' = SubSeq(inflight, 1, i - 1) \o SubSeq(inflight, i + 1, Len(inflight))
    /\ UNCHANGED <<parseIn, parseOut>>
    /\ UNCHANGED producerVars
    /\ UNCHANGED <<phase, alertRules, pc, msg, err, evalIn, evalOut, evalAgain, now,
                   nRequests, pending, nAdded, firstAdd, lastAdd, received, processed,
                   readErrors, stream, outcomes>>

NextConc ==
    \/ \E req \in ConcRequests : InitializeAddRule(req)
    \/ StartConsuming
    \/ \E e \in ConcEnvelopes : ReadMessage(e)
    \/ ReadMessageError
    \/ BeginProcess
    \/ ApplySet
    \/ EndProcess
    \/ \E body \in ConcBodies : AcceptInjection(body)
    \/ \E i \in 1..MaxInjections : ServeInjection(i)

SpecConc == Init /\ [][NextConc]_vars

(* ----------------------- startup from an input file ------------------- *)
\* Lines of the files: entries, a comment and a blank line.
FileLines ==
    { Line("12601", 4, F(10), F(15), 85),
      Line("10001", 3, F(15), F(20), 90),
      Line("12601", 3, NaN, F(15), 85),
      Line("90210", 6, F(20), F(10), 80),
      Line("1260a", 2, F(20), F(10), 80),
      Line("12601-1234", 2, F(20), F(10), 80),
      Line("12601_1234", 2, F(20), F(10), 80),
      Line("12601-12a4", 2, F(20), F(10), 80),
      Line("1260", 2, F(20), F(10), 80),
      Line("", 2, F(20), F(10), 80),
      Line("90210", 2, F(-50) - 1, F(10), 80),
      Line("90210", 5, F(60), F(100), 100),
      Line("90210", 1, F(-50), F(0), 0),
      Line("90210", 0, F(20), F(10), 80),
      Line("90210", 2, F(20), F(0) - 1, 80),
      Line("90210", 2, F(20), F(10), -1),
      <<"90210", NotNum, Num(F(20)), Num(F(10)), Num(80)>>,
      <<"90210", Num(2), NotNum, Num(F(10)), Num(80)>>,
      <<"90210", Num(2), Num(F(20)), NotNum, Num(80)>>,
      <<"90210", Num(2), Num(F(20)), Num(F(10)), NotNum>>,
      <<"90210", Num(2), Num(F(20)), Num(F(10)), Num(80), Num(1)>>,
      <<"# zip">>,
      <<"">> } \cup InputLines

Files == UNION { [1..n -> FileLines] : n \in 1..MaxLines }

\* requests, err := utils.ParseInputFile(inputFile)
ParseInputFileCall(file) ==
    /\ phase = "startup"
    /\ parseIn = Nil
    /\ parseIn' = Ptr(file)
    /\ parseOut' = Ptr(ParseInputFile(file))
    /\ UNCHANGED <<phase, alertRules, pc, msg, err, metrics, evalIn, evalOut, evalAgain,
                   now, httpReq, httpResp, nRequests, pending, inflight, lastSet,
                   nAdded, firstAdd, lastAdd, received, processed, readErrors, stream,
                   outcomes>>
    /\ UNCHANGED producerVars

\* One iteration of `for _, req := range requests`.
AddRuleFromFile ==
    /\ phase = "startup"
    /\ parseOut # Nil
    /\ parseOut[1].err = "nil"
    /\ nAdded < Len(parseOut[1].requests)
    /\ LET req == parseOut[1].requests[nAdded + 1] IN
         /\ alertRules' = AddAlertRule(alertRules, req[1], getCityNameFromZipCode(req[1]),
                                       req[2], req[3], req[4])
         /\ firstAdd' = IF req[1] \in DOMAIN firstAdd THEN firstAdd
                        ELSE MapPut(firstAdd, req[1], req)
         /\ lastAdd' = MapPut(lastAdd, req[1], req)
    /\ nAdded' = nAdded + 1
    /\ UNCHANGED <<phase, pc, msg, err, metrics, evalIn, evalOut, evalAgain, now,
                   httpReq, httpResp, nRequests, pending, inflight, lastSet, parseIn,
                   parseOut, received, processed, readErrors, stream, outcomes>>
    /\ UNCHANGED producerVars

\* initializeAlertEvaluator returns: after the loop over the requests, or at
\* once with the empty evaluator when ParseInputFile returned an error.
InitializeReturns ==
    /\ phase = "startup"
    /\ parseOut # Nil
    /\ parseOut[1].err # "nil" \/ nAdded = Len(parseOut[1].requests)
    /\ phase' = "running"
    /\ UNCHANGED <<alertRules, pc, msg, err, metrics, evalIn, evalOut, evalAgain, now,
                   httpReq, httpResp, nRequests, pending, inflight, lastSet, parseIn,
                   parseOut, nAdded, firstAdd, lastAdd, received, processed, readErrors,
                   stream, outcomes>>
    /\ UNCHANGED producerVars

NextFile ==
    \/ \E file \in Files : ParseInputFileCall(file)
    \/ AddRuleFromFile
    \/ InitializeReturns

SpecFile == Init /\ [][NextFile]_vars

(* ------------------------------- producer ------------------------------ *)
MaxForecast == 17

MaxSendFailures == 1

MaxFetchFailures == 1

HourlyLimit == 16

Days(req) == req[5]

\* What the weather service answers: the current weather of the location and
\* a forecast of items three hours apart, Dt counted in 3-hour steps from the
\* start of today.
CurrentResponse == [Name |-> "Poughkeepsie", Main |-> Hot]

ForecastItem(dt) ==
    [Dt |-> dt, Temp |-> F(20) + dt * 50, TempMin |-> F(19) + dt * 50,
     TempMax |-> F(21) + dt * 50, Pressure |-> 1013, Humidity |-> 60 + dt,
     Speed |-> F(5) + dt * 10,
     Weather |-> <<[Main |-> "Clouds", Description |-> "few clouds"]>>]

ForecastResponses ==
    { [City |-> "Poughkeepsie", List |-> [k \in 1..n |-> ForecastItem(k)]] :
        n \in {0, 2, MaxForecast} }

WeatherMessage(zipCode, city, type, current, fc, hourly, daily) ==
    [ZipCode |-> zipCode, City |-> city, Country |-> "US", MessageType |-> type,
     Current |-> current, Forecast |-> fc, Hourly |-> hourly, Daily |-> daily]

SendCurrentWeatherMessage(zipCode, city, weather) ==
    WeatherMessage(zipCode, city, "current", Ptr(weather), Nil, Nil, Nil)

SendForecastWeatherMessage(zipCode, city, fc) ==
    WeatherMessage(zipCode, city, "forecast", Nil, Ptr(fc), Nil, Nil)

SendHourlyWeatherMessage(zipCode, city, hourly) ==
    WeatherMessage(zipCode, city, "hourly", Nil, Nil, Ptr(hourly), Nil)

\* The date of a forecast item, in days from today.
DateOf(dt) == dt \div 8

RECURSIVE SumOf(_, _)
SumOf(items, field) ==
    IF items = <<>> THEN 0 ELSE items[1][field] + SumOf(Tail(items), field)

RECURSIVE MinOf(_, _)
MinOf(items, field) ==
    IF Len(items) = 1 THEN items[1][field]
    ELSE LET m == MinOf(Tail(items), field) IN
         IF items[1][field] < m THEN items[1][field] ELSE m

RECURSIVE MaxOf(_, _)
MaxOf(items, field) ==
    IF Len(items) = 1 THEN items[1][field]
    ELSE LET m == MaxOf(Tail(items), field) IN
         IF items[1][field] > m THEN items[1][field] ELSE m

calculateDailySummary(fc, day) ==
    LET targetDate == day - 1
        dayItems == SelectSeq(fc.List, LAMBDA item : DateOf(item.Dt) = targetDate)
    IN IF Len(dayItems) = 0
       THEN [Day |-> day, Date |-> targetDate, TempMin |-> 0, TempMax |-> 0,
             TempAvg |-> 0, Humidity |-> 0, WindSpeed |-> 0,
             Description |-> "No data available"]
       ELSE [Day |-> day, Date |-> targetDate,
             TempMin |-> MinOf(dayItems, "TempMin"),
             TempMax |-> MaxOf(dayItems, "TempMax"),
             TempAvg |-> SumOf(dayItems, "Temp") \div Len(dayItems),
             Humidity |-> SumOf(dayItems, "Humidity") \div Len(dayItems),
             WindSpeed |-> SumOf(dayItems, "Speed") \div Len(dayItems),
             Description |-> dayItems[1].Weather[1].Description]

SendDailyWeatherMessage(zipCode, city, fc, day) ==
    WeatherMessage(zipCode, city, "daily", Nil, Nil, Nil,
                   Ptr(calculateDailySummary(fc, day)))

\* The result of SendWeatherData, chosen by the broker.
SendResults == {"nil", "failed to produce message"}

FailedSends == Len(SelectSeq(sent, LAMBDA s : s.err # "nil"))

FailedFetches == Len(SelectSeq(returned, LAMBDA e : e # "nil"))

CanFail(result) == result = "nil" \/ FailedSends < MaxSendFailures

Sent(message, result) == Append(sent, [i |-> reqIndex, message |-> message, err |-> result])

\* The position after a Send* call: its error is logged and nothing else.
AfterSend(result, next) == next

\* Mutant: a failed request ends the batch.
AfterFailedRequest_stop == "done"

\* processInitialBatch after a process*WeatherData call that returned an
\* error: `continue`.
AfterFailedRequest == "range"

\* requests, err := utils.ParseInputFile(inputFile); on error, return.
ProcessInitialBatch(file) ==
    /\ ppc = "parse"
    /\ LET r == ParseInputFile(file) IN
         /\ requests' = r.requests
         /\ ppc' = IF r.err # "nil" THEN "done" ELSE "range"
    /\ UNCHANGED <<reqIndex, forecast, hourlyCount, sent, returned>>
    /\ UNCHANGED consumerVars

\* for i, req := range requests
RangeRequests ==
    /\ ppc = "range"
    /\ IF reqIndex < Len(requests)
       THEN /\ reqIndex' = reqIndex + 1
            /\ ppc' = "getCurrent"
       ELSE /\ ppc' = "done"
            /\ UNCHANGED reqIndex
    /\ forecast' = Nil
    /\ hourlyCount' = 0
    /\ UNCHANGED <<requests, sent, returned>>
    /\ UNCHANGED consumerVars

\* weatherService.GetWeatherByZip; on error the function returns it and
\* processInitialBatch logs it and continues with the next request.
GetWeatherByZip(ok) ==
    /\ ppc = "getCurrent"
    /\ ok \/ FailedFetches < MaxFetchFailures
    /\ IF ok
       THEN /\ ppc' = "sendCurrent"
            /\ UNCHANGED returned
       ELSE /\ returned' = Append(returned, "failed to fetch weather")
            /\ ppc' = AfterFailedRequest
    /\ UNCHANGED <<requests, reqIndex, forecast, hourlyCount, sent>>
    /\ UNCHANGED consumerVars

\* producer.SendCurrentWeather; then the forecast is fetched, or, with
\* req.Days = 0 in processStandardWeatherData, the function returns nil.
SendCurrentWeather(result) ==
    /\ ppc = "sendCurrent"
    /\ CanFail(result)
    /\ LET req == requests[reqIndex] IN
         /\ sent' = Sent(SendCurrentWeatherMessage(req[1], CurrentResponse.Name,
                                                   CurrentResponse.Main), result)
         /\ ppc' = AfterSend(result, IF Days(req) >= 4 THEN "getForecast"
                                     ELSE IF Days(req) > 0 THEN "getForecast"
                                     ELSE "return")
    /\ UNCHANGED <<requests, reqIndex, forecast, hourlyCount, returned>>
    /\ UNCHANGED consumerVars

\* weatherService.GetForecastByZip.
GetForecastByZip(ok, resp) ==
    /\ ppc = "getForecast"
    /\ ok \/ FailedFetches < MaxFetchFailures
    /\ IF ok
       THEN /\ forecast' = Ptr(resp)
            /\ ppc' = IF Days(requests[reqIndex]) >= 4 THEN "hourly" ELSE "sendForecast"
            /\ UNCHANGED returned
       ELSE /\ returned' = Append(returned, "failed to fetch forecast")
            /\ ppc' = AfterFailedRequest
            /\ UNCHANGED forecast
    /\ hourlyCount' = 0
    /\ UNCHANGED <<requests, reqIndex, sent>>
    /\ UNCHANGED consumerVars

\* One iteration of `for _, item := range forecast.List` that sends.
SendHourlyWeather(result) ==
    /\ ppc = "hourly"
    /\ hourlyCount < Len(forecast[1].List)
    /\ ~(hourlyCount >= HourlyLimit)
    /\ CanFail(result)
    /\ sent' = Sent(SendHourlyWeatherMessage(requests[reqIndex][1], forecast[1].City,
                                             forecast[1].List[hourlyCount + 1]), result)
    /\ hourlyCount' = hourlyCount + 1
    /\ ppc' = AfterSend(result, "hourly")
    /\ UNCHANGED <<requests, reqIndex, forecast, returned>>
    /\ UNCHANGED consumerVars

\* The loop over forecast.List ends: the list is exhausted or the `break`.
HourlyDone ==
    /\ ppc = "hourly"
    /\ hourlyCount >= Len(forecast[1].List) \/ hourlyCount >= HourlyLimit
    /\ ppc' = "daily3"
    /\ UNCHANGED <<requests, reqIndex, forecast, hourlyCount, sent, returned>>
    /\ UNCHANGED consumerVars

\* if req.Days >= 3 { SendDailyWeather(..., 3) }; if req.Days >= 4 { SendDailyWeather(..., 4) }
SendDailyWeather(day, result) ==
    /\ ppc = IF day = 3 THEN "daily3" ELSE "daily4"
    /\ LET req == requests[reqIndex] IN
       IF Days(req) >= day
       THEN /\ CanFail(result)
            /\ sent' = Sent(SendDailyWeatherMessage(req[1], forecast[1].City,
                                                    forecast[1], day), result)
            /\ ppc' = AfterSend(result, IF day = 3 THEN "daily4" ELSE "return")
       ELSE /\ result = "nil"
            /\ ppc' = IF day = 3 THEN "daily4" ELSE "return"
            /\ UNCHANGED sent
    /\ UNCHANGED <<requests, reqIndex, forecast, hourlyCount, returned>>
    /\ UNCHANGED consumerVars

\* producer.SendForecastWeather of processStandardWeatherData.
SendForecastWeather(result) ==
    /\ ppc = "sendForecast"
    /\ CanFail(result)
    /\ sent' = Sent(SendForecastWeatherMessage(requests[reqIndex][1], forecast[1].City,
                                               forecast[1]), result)
    /\ ppc' = AfterSend(result, "return")
    /\ UNCHANGED <<requests, reqIndex, forecast, hourlyCount, returned>>
    /\ UNCHANGED consumerVars

\* process*WeatherData returns nil and the loop goes on to the next request.
ReturnToBatch ==
    /\ ppc = "return"
    /\ returned' = Append(returned, "nil")
    /\ ppc' = "range"
    /\ UNCHANGED <<requests, reqIndex, forecast, hourlyCount, sent>>
    /\ UNCHANGED consumerVars

BatchLines ==
    { Line("12601", 4, F(10), F(15), 85),
      Line("10001", 3, F(15), F(20), 90),
      Line("90210", 5, F(60), F(100), 100),
      Line("90210", 6, F(20), F(10), 80) }

BatchFiles == UNION { [1..n -> BatchLines] : n \in 1..MaxLines }

NextProducer ==
    \/ \E file \in BatchFiles : ProcessInitialBatch(file)
    \/ RangeRequests
    \/ \E ok \in BOOLEAN : GetWeatherByZip(ok)
    \/ \E result \in SendResults : SendCurrentWeather(result)
    \/ \E ok \in BOOLEAN, resp \in ForecastResponses : GetForecastByZip(ok, resp)
    \/ \E result \in SendResults : SendHourlyWeather(result)
    \/ HourlyDone
    \/ \E day \in {3, 4}, result \in SendResults : SendDailyWeather(day, result)
    \/ \E result \in SendResults : SendForecastWeather(result)
    \/ ReturnToBatch

SpecProducer == Init /\ [][NextProducer]_vars

(* ------------------ the evaluator applied to any sample ---------------- *)
Temps == {F(5) - 1, F(5), F(10) - 1, F(10), F(12), F(20) - 1, F(20), F(21)}

Winds == {F(5), F(15), F(20)}

Humidities == {40, 85, 90}

Pressures == {990, 1000, 1001}

Condition(main) == [Main |-> main, Description |-> "text"]

ConditionLists ==
    { <<>>, <<Condition("Clear")>>, <<Condition("Thunderstorm")>>,
      <<Condition("Snow")>>, <<Condition("Rain")>>, <<Condition("Drizzle")>>,
      <<Condition("Clouds"), Condition("Rain")>> }

Samples ==
    [Temp : Temps, Pressure : Pressures, Humidity : Humidities, Speed : Winds,
     Weather : ConditionLists]

ZipCodes == {"12601", "10001", "90210"}

\* A direct call of the evaluator on the registry built so far; the
\* behaviour ends with it (phase "evaluated").
EvaluateCurrent ==
    /\ phase = "startup"
    /\ \E weather \in Samples, zipCode \in ZipCodes :
         /\ evalIn' = Ptr([kind |-> "current", weather |-> weather, zipCode |-> zipCode])
         /\ evalOut' = EvaluateCurrentWeather(alertRules, weather, zipCode)
    /\ phase' = "evaluated"
    /\ UNCHANGED <<parseIn, parseOut>>
    /\ UNCHANGED producerVars
    /\ UNCHANGED <<evalAgain, now, httpReq, httpResp, nRequests, pending, inflight, lastSet>>
    /\ UNCHANGED <<alertRules, pc, msg, err, metrics, nAdded, firstAdd,
                   lastAdd, received, processed, readErrors, stream, outcomes>>

EvaluateHourly ==
    /\ phase = "startup"
    /\ \E weather \in Samples, zipCode \in ZipCodes :
         /\ evalIn' = Ptr([kind |-> "hourly", weather |-> weather, zipCode |-> zipCode])
         /\ evalOut' = EvaluateHourlyWeather(alertRules, Item(1, weather), zipCode)
    /\ phase' = "evaluated"
    /\ UNCHANGED <<parseIn, parseOut>>
    /\ UNCHANGED producerVars
    /\ UNCHANGED <<evalAgain, now, httpReq, httpResp, nRequests, pending, inflight, lastSet>>
    /\ UNCHANGED <<alertRules, pc, msg, err, metrics, nAdded, firstAdd,
                   lastAdd, received, processed, readErrors, stream, outcomes>>

\* Time passes between two calls.
Tick ==
    /\ phase \in {"startup", "evaluated"}
    /\ now < MaxClock
    /\ now' = now + 1
    /\ UNCHANGED <<parseIn, parseOut>>
    /\ UNCHANGED producerVars
    /\ UNCHANGED <<pending, inflight, lastSet>>
    /\ UNCHANGED <<phase, alertRules, pc, msg, err, metrics, evalIn, evalOut, evalAgain,
                   httpReq, httpResp, nRequests, nAdded, firstAdd, lastAdd, received, processed,
                   readErrors, stream, outcomes>>

\* A second call of the evaluator with the arguments of the first.
EvaluateAgain ==
    /\ phase = "evaluated"
    /\ evalAgain' =
         Ptr(IF evalIn[1].kind = "current"
             THEN EvaluateCurrentWeather(alertRules, evalIn[1].weather, evalIn[1].zipCode)
             ELSE EvaluateHourlyWeather(alertRules, Item(1, evalIn[1].weather),
                                        evalIn[1].zipCode))
    /\ phase' = "evaluatedTwice"
    /\ UNCHANGED <<parseIn, parseOut>>
    /\ UNCHANGED producerVars
    /\ UNCHANGED <<pending, inflight, lastSet>>
    /\ UNCHANGED <<alertRules, pc, msg, err, metrics, evalIn, evalOut, now, httpReq,
                   httpResp, nRequests, nAdded, firstAdd, lastAdd, received, processed,
                   readErrors, stream, outcomes>>

NextEval ==
    \/ \E req \in Requests : InitializeAddRule(req)
    \/ EvaluateCurrent
    \/ EvaluateHourly

SpecEval == Init /\ [][NextEval]_vars

NextTwice ==
    \/ \E req \in Requests : InitializeAddRule(req)
    \/ Tick
    \/ EvaluateCurrent
    \/ EvaluateHourly
    \/ EvaluateAgain

SpecTwice == Init /\ [][NextTwice]_vars

(* ------------------------ vocabulary of the claims --------------------- *)
KindTags == {"current", "forecast", "hourly", "daily"}

Malformed(e) == ~e.ok \/ e.MessageType \notin KindTags

PayloadOf(e) ==
    CASE e.MessageType = "current" -> e.Current
      [] e.MessageType = "forecast" -> e.Forecast
      [] e.MessageType = "hourly" -> e.Hourly
      [] e.MessageType = "daily" -> e.Daily

DecodeFails(e) == Malformed(e) \/ PayloadOf(e) = Nil

WellFormed(e) == ~DecodeFails(e)

Evaluated(e) == WellFormed(e) /\ e.MessageType \in {"current", "hourly"}

CallsOf(i) == SelectSeq(metrics.calls, LAMBDA c : c.n = i)

ItemCall(i, city, item) ==
    Call(i, "UpdateForecastWeatherMetrics", city, "", "", item.Temp,
         item.Humidity * 100, item.Speed, item.Pressure * 100, item.Dt, 0, 0)

\* The observation updates a well-formed envelope e, the i-th of the stream, is to make.
ObsCallsOf(e, i) ==
    CASE e.MessageType = "current" ->
           <<Call(i, "UpdateCurrentWeatherMetrics", e.City, "", "", e.Current[1].Temp,
                  e.Current[1].Humidity * 100, e.Current[1].Speed,
                  e.Current[1].Pressure * 100, 0, 0, 0)>>
      [] e.MessageType = "hourly" -> <<ItemCall(i, e.City, e.Hourly[1])>>
      [] e.MessageType = "forecast" ->
           [k \in 1..Len(e.Forecast[1].List) |-> ItemCall(i, e.City, e.Forecast[1].List[k])]
      [] e.MessageType = "daily" ->
           <<Call(i, "UpdateCurrentWeatherMetrics", e.City, "", "", e.Daily[1].TempAvg,
                  e.Daily[1].Humidity * 100, e.Daily[1].WindSpeed, 101325, 0, 0, 0)>>

\* The measurements of an evaluated envelope.
SampleOf(e) ==
    LET p == PayloadOf(e)[1] IN
    [Temp |-> p.Temp, Pressure |-> p.Pressure, Humidity |-> p.Humidity,
     Speed |-> p.Speed, Weather |-> p.Weather]

AlertCallsOf(i, alerts) == [k \in 1..Len(alerts) |-> AlertCall(i, alerts[k])]

IsPrefix(s, t) == Len(s) <= Len(t) /\ SubSeq(t, 1, Len(s)) = s

(* -------------------------------- claims ------------------------------- *)
\* C1: a well-formed envelope that immediately follows a malformed one
\* (invalid JSON, missing or unknown message_type) is processed without
\* error: its observation update is made, for current/hourly one alert update
\* per alert of its evaluation follows, and the loop never exits.
C1_NextEnvelopeProcessed ==
    /\ pc \in {"read", "process"}
    /\ \A i \in 2..Len(outcomes) :
         LET e == stream[i] IN
         (Malformed(stream[i - 1]) /\ WellFormed(e)) =>
            /\ outcomes[i] = "nil"
            /\ IsPrefix(ObsCallsOf(e, i), CallsOf(i))
            /\ Evaluated(e) =>
                 Len(CallsOf(i)) = 1 + Len(EvaluateCurrentWeather(alertRules, SampleOf(e), e.ZipCode))

C1_Witness ==
    /\ Len(outcomes) >= 2
    /\ Malformed(stream[1])
    /\ outcomes[1] # "nil"
    /\ stream[2].MessageType = "current"
    /\ outcomes[2] = "nil"
    /\ Len(CallsOf(2)) > 1

\* C2: a step of processMessage on an envelope that fails to decode (JSON
\* error, unrecognized message_type, or the payload named by message_type
\* absent) returns an error and leaves the sink, gauges and call log, as it was.
C2_DecodeErrorLeavesSinkUnchanged ==
    [][(pc = "process" /\ processed' = processed + 1 /\ DecodeFails(msg[1]))
         => (metrics' = metrics /\ err' # "nil")]_vars

C2_Witness ==
    /\ Len(outcomes) >= 2
    /\ outcomes[1] = "nil"
    /\ outcomes[2] = "current weather data is nil"
    /\ metrics.calls # <<>>

C4_EveryEnvelopeProcessed ==
    /\ <>(processed = MaxMsgs)
    /\ (received > processed) ~> (received = processed)

C4_Witness ==
    /\ processed = MaxMsgs
    /\ \A i \in 1..(MaxMsgs - 1) : outcomes[i] # "nil"

\* C5: at most one envelope is in flight, and in the call log of the sink the
\* calls caused by an earlier envelope all come before those of a later one.
C5_ArrivalOrder ==
    /\ received - processed \in {0, 1}
    /\ \A k \in DOMAIN metrics.calls : metrics.calls[k].n \in 1..processed
    /\ \A j, k \in DOMAIN metrics.calls :
         j < k => metrics.calls[j].n <= metrics.calls[k].n

C5_Witness ==
    \E j, k \in DOMAIN metrics.calls :
       /\ metrics.calls[j].n = 1
       /\ metrics.calls[k].n = 2
       /\ metrics.calls[j].op = "UpdateAlertMetrics"
       /\ metrics.calls[k].op = "UpdateAlertMetrics"

\* C6: the calls a well-formed current or hourly envelope causes are exactly
\* its observation update with the sample's four measurements, then one
\* UpdateAlertMetrics per alert of the evaluation of the sample against the
\* rule of the envelope's zip_code, in the evaluator's order.
C6_UpdateThenAlertsInOrder ==
    \A i \in 1..Len(outcomes) :
       LET e == stream[i] IN
       Evaluated(e) =>
          CallsOf(i) = ObsCallsOf(e, i)
                       \o AlertCallsOf(i, EvaluateCurrentWeather(alertRules, SampleOf(e), e.ZipCode))

C6_Witness ==
    \E i \in 1..Len(outcomes) :
       /\ Evaluated(stream[i])
       /\ Len(CallsOf(i)) >= 3
       /\ CallsOf(i)[2].type = "temperature"
       /\ CallsOf(i)[3].type = "high_temperature"

\* C7: every UpdateAlertMetrics call is caused by a current or hourly
\* envelope; a forecast or daily envelope causes its observation updates and
\* nothing else.
C7_ForecastAndDailyNeverAlert ==
    /\ \A k \in DOMAIN metrics.calls :
         metrics.calls[k].op = "UpdateAlertMetrics" =>
            stream[metrics.calls[k].n].MessageType \in {"current", "hourly"}
    /\ \A i \in 1..Len(outcomes) :
         LET e == stream[i] IN
         (WellFormed(e) /\ e.MessageType \in {"forecast", "daily"}) =>
            CallsOf(i) = ObsCallsOf(e, i)

\* a daily summary above every threshold of its location's rule, and a
\* forecast series with items above them
C7_Witness ==
    /\ Len(outcomes) = 2
    /\ "12601" \in DOMAIN alertRules
    /\ \E i, j \in 1..2 :
         /\ stream[i].MessageType = "daily" /\ WellFormed(stream[i])
         /\ stream[i].ZipCode = "12601"
         /\ stream[i].Daily[1].TempAvg >= alertRules["12601"].HighTempAlert
         /\ stream[j].MessageType = "forecast" /\ WellFormed(stream[j])
         /\ Len(CallsOf(j)) = 2

\* C8: for a zip code without a rule both evaluation entry points return the
\* empty sequence, and a current or hourly envelope for such a zip code is
\* processed without error, causing its observation update and no alert call.
C8_RegistryMissYieldsNoAlerts ==
    /\ \A z \in ZipCodes \ DOMAIN alertRules : \A w \in {Hot, Cold} :
         /\ EvaluateCurrentWeather(alertRules, w, z) = <<>>
         /\ EvaluateHourlyWeather(alertRules, Item(1, w), z) = <<>>
    /\ \A i \in 1..Len(outcomes) :
         LET e == stream[i] IN
         (Evaluated(e) /\ e.ZipCode \notin DOMAIN alertRules) =>
            /\ outcomes[i] = "nil"
            /\ CallsOf(i) = ObsCallsOf(e, i)

C8_Witness ==
    /\ alertRules # EmptyMap
    /\ Len(outcomes) = 2
    /\ \A i \in 1..2 :
         /\ stream[i].ZipCode \notin DOMAIN alertRules
         /\ outcomes[i] = "nil"
         /\ SampleOf(stream[i]) = Hot
    /\ stream[1].MessageType = "current"
    /\ stream[2].MessageType = "hourly"

\* C9: the registry holds exactly one rule for each zip code AddAlertRule was
\* called with, stored under its own zip code, and GetAlertRule returns the
\* rule built from the arguments of the last call for that zip code alone.
C9_LastWriteWins ==
    /\ DOMAIN alertRules = DOMAIN lastAdd
    /\ \A z \in ZipCodes \ DOMAIN lastAdd : GetAlertRule(alertRules, z) = Nil
    /\ \A z \in DOMAIN lastAdd :
         LET a == lastAdd[z] IN
         GetAlertRule(alertRules, z) =
            << [ZipCode |-> z, City |-> getCityNameFromZipCode(z),
                AlertTemp |-> a[2], HighTempAlert |-> FAdd(a[2], 1000),
                LowTempAlert |-> FAdd(a[2], -500), WindAlert |-> a[3],
                HumidityAlert |-> a[4], PressureAlert |-> 1000] >>

C9_Witness ==
    \E z \in DOMAIN lastAdd :
       /\ firstAdd[z][2] # lastAdd[z][2]
       /\ firstAdd[z][3] # lastAdd[z][3]
       /\ firstAdd[z][4] # lastAdd[z][4]

Taxonomy ==
    <<"temperature", "high_temperature", "low_temperature", "high_wind",
      "high_humidity", "low_pressure", "weather_condition">>

\* The condition of each check of the taxonomy.
Fires(t, w, rule) ==
    CASE t = "temperature" -> FGe(w.Temp, rule.AlertTemp)
      [] t = "high_temperature" -> FGe(w.Temp, rule.HighTempAlert)
      [] t = "low_temperature" -> FLe(w.Temp, rule.LowTempAlert)
      [] t = "high_wind" -> FGe(w.Speed, rule.WindAlert)
      [] t = "high_humidity" -> w.Humidity >= rule.HumidityAlert
      [] t = "low_pressure" -> w.Pressure <= rule.PressureAlert
      [] t = "weather_condition" ->
           /\ w.Weather # <<>>
           /\ w.Weather[1].Main \in {"Thunderstorm", "Snow", "Rain", "Drizzle"}

\* C10: for a registered zip code the types of the alerts EvaluateCurrentWeather
\* returns are the taxonomy, in its order, restricted to the checks whose
\* condition holds for the sample.
C10_AlertsAreTaxonomySubsequence ==
    (evalIn # Nil /\ evalIn[1].kind = "current" /\ evalIn[1].zipCode \in DOMAIN alertRules) =>
       LET w == evalIn[1].weather
           rule == alertRules[evalIn[1].zipCode]
           Holds(t) == Fires(t, w, rule)
       IN  [k \in 1..Len(evalOut) |-> evalOut[k].Type] = SelectSeq(Taxonomy, Holds)

C10_Witness ==
    /\ evalIn # Nil
    /\ evalIn[1].kind = "current"
    /\ Len(evalOut) = 6

(* --------------------- thresholds and alert contents ------------------- *)
\* The evaluator was called for a zip code that has a rule.
EvalRegistered == evalIn # Nil /\ evalIn[1].zipCode \in DOMAIN alertRules

EvalWeather == evalIn[1].weather

EvalRule == alertRules[evalIn[1].zipCode]

AlertsOfType(t) == SelectSeq(evalOut, LAMBDA a : a.Type = t)

HasAlert(t) == AlertsOfType(t) # <<>>

\* C11: every threshold check is inclusive: a temperature equal to AlertTemp,
\* to HighTempAlert or to LowTempAlert, a wind speed equal to WindAlert, a
\* humidity equal to HumidityAlert and a pressure equal to 1000 each raise
\* their alert.
C11_ThresholdsInclusive ==
    EvalRegistered =>
       /\ EvalWeather.Temp = EvalRule.AlertTemp => HasAlert("temperature")
       /\ EvalWeather.Temp = EvalRule.HighTempAlert => HasAlert("high_temperature")
       /\ EvalWeather.Temp = EvalRule.LowTempAlert => HasAlert("low_temperature")
       /\ EvalWeather.Speed = EvalRule.WindAlert => HasAlert("high_wind")
       /\ EvalWeather.Humidity = EvalRule.HumidityAlert => HasAlert("high_humidity")
       /\ EvalWeather.Pressure = 1000 => HasAlert("low_pressure")

C11_Witness ==
    /\ EvalRegistered
    /\ EvalWeather.Temp = EvalRule.LowTempAlert
    /\ EvalWeather.Speed = EvalRule.WindAlert
    /\ EvalWeather.Humidity = EvalRule.HumidityAlert
    /\ EvalWeather.Pressure = EvalRule.PressureAlert
    /\ HasAlert("low_temperature") /\ HasAlert("high_wind")
    /\ HasAlert("high_humidity") /\ HasAlert("low_pressure")

\* C12 as stated: for a sample temperature strictly below AlertTemp the result
\* contains no custom-threshold, no high_temperature and no low_temperature
\* alert.
C12_NoTemperatureAlertBelowCustom ==
    (EvalRegistered /\ FLt(EvalWeather.Temp, EvalRule.AlertTemp)) =>
       /\ ~HasAlert("temperature")
       /\ ~HasAlert("high_temperature")
       /\ ~HasAlert("low_temperature")

\* C12, amended: for a sample temperature strictly below AlertTemp the result
\* contains no custom-threshold and no high_temperature alert, and it contains
\* the low_temperature alert exactly when the temperature is at most
\* LowTempAlert (AlertTemp - 5).
C12_BelowCustomOnlyLowTemperature ==
    (EvalRegistered /\ FLt(EvalWeather.Temp, EvalRule.AlertTemp)) =>
       /\ ~HasAlert("temperature")
       /\ ~HasAlert("high_temperature")
       /\ HasAlert("low_temperature") <=> FLe(EvalWeather.Temp, EvalRule.LowTempAlert)

C12_Witness ==
    /\ EvalRegistered
    /\ FLt(EvalWeather.Temp, EvalRule.AlertTemp)
    /\ HasAlert("low_temperature")
    /\ ~HasAlert("temperature")

WithoutTimestamp(a) == [f \in DOMAIN a \ {"Timestamp"} |-> a[f]]

\* C13 as stated: two evaluations of the same sample against the same registry
\* state return identical alert sequences, equal in length, order and in every
\* field of every alert.
C13_SecondEvaluationIdentical ==
    evalAgain # Nil => evalAgain[1] = evalOut

\* C13, amended: two evaluations of the same sample against the same registry
\* state return alert sequences equal in length, order and in every field of
\* every alert except Timestamp, which holds the time of each evaluation.
C13_SecondEvaluationEqualUpToTimestamp ==
    evalAgain # Nil =>
       /\ Len(evalAgain[1]) = Len(evalOut)
       /\ \A k \in 1..Len(evalOut) :
             WithoutTimestamp(evalAgain[1][k]) = WithoutTimestamp(evalOut[k])

C13_Witness ==
    /\ evalAgain # Nil
    /\ Len(evalOut) >= 2
    /\ evalAgain[1][1].Timestamp # evalOut[1].Timestamp

\* The rule of AddAlertRule("12601", city, 10, 15, 85).
Rule12601 == NewRule("12601", getCityNameFromZipCode("12601"), F(10), F(15), 85)

\* The evaluator was called for zip 12601 on a current sample while the
\* registry held Rule12601.
EvalRule12601 ==
    /\ EvalRegistered
    /\ evalIn[1].kind = "current"
    /\ evalIn[1].zipCode = "12601"
    /\ EvalRule = Rule12601

MildSample ==
    /\ EvalWeather.Temp = F(12)
    /\ EvalWeather.Speed = F(5)
    /\ EvalWeather.Humidity = 40
    /\ EvalWeather.Weather = <<Condition("Clear")>>

OnlyCustomThreshold ==
    /\ Len(evalOut) = 1
    /\ evalOut[1].Type = "temperature"
    /\ evalOut[1].Severity = "warning"
    /\ evalOut[1].Value = F(12)
    /\ evalOut[1].Threshold = F(10)

\* C14 as stated: with Rule12601, the sample {temperature 12, wind 5,
\* humidity 40, condition "Clear"} returns exactly one alert, the
\* custom-threshold alert with severity warning, value 12 and threshold 10.
C14_MildSampleOneAlert ==
    (EvalRule12601 /\ MildSample) => OnlyCustomThreshold

\* C14, amended: the same holds provided the pressure of the sample is above
\* 1000; at a pressure of 1000 or less the result is that alert followed by a
\* low_pressure alert.
C14_MildSampleOneAlertAboveDefaultPressure ==
    (EvalRule12601 /\ MildSample) =>
       IF EvalWeather.Pressure > 1000
       THEN OnlyCustomThreshold
       ELSE /\ Len(evalOut) = 2
            /\ evalOut[1].Type = "temperature"
            /\ evalOut[2].Type = "low_pressure"

C14_Witness ==
    /\ EvalRule12601
    /\ MildSample
    /\ EvalWeather.Pressure > 1000
    /\ OnlyCustomThreshold

SevereSample ==
    /\ EvalWeather.Temp = F(21)
    /\ EvalWeather.Speed = F(20)
    /\ EvalWeather.Humidity = 90
    /\ EvalWeather.Weather = <<Condition("Thunderstorm")>>
    /\ EvalWeather.Pressure > 1000

TypesOf(alerts) == [k \in 1..Len(alerts) |-> alerts[k].Type]

\* C15 as stated: with Rule12601, the sample {temperature 21, wind 20,
\* humidity 90, condition "Thunderstorm"} with pressure above 1000 returns four
\* alerts, among them custom-threshold, high-temperature, high-wind,
\* high-humidity and a critical condition alert, and no low_pressure alert.
C15_SevereSampleFourAlerts ==
    (EvalRule12601 /\ SevereSample) =>
       /\ Len(evalOut) = 4
       /\ \A t \in {"temperature", "high_temperature", "high_wind", "high_humidity",
                    "weather_condition"} : HasAlert(t)
       /\ ~HasAlert("low_pressure")

\* C15, amended: the sample returns five alerts, in this order:
\* custom-threshold, high-temperature, high-wind, high-humidity and condition
\* (severity critical), and no low_pressure alert.
C15_SevereSampleFiveAlerts ==
    (EvalRule12601 /\ SevereSample) =>
       /\ TypesOf(evalOut) = <<"temperature", "high_temperature", "high_wind",
                               "high_humidity", "weather_condition">>
       /\ evalOut[5].Severity = "critical"

C15_Witness ==
    /\ EvalRule12601
    /\ SevereSample
    /\ Len(evalOut) = 5

\* The severity the condition check gives to a primary condition label.
ConditionSeverity(label) ==
    CASE label = "Thunderstorm" -> "critical"
      [] label \in {"Snow", "Rain"} -> "warning"
      [] label = "Drizzle" -> "info"
      [] OTHER -> "none"

\* C16: the result holds a weather_condition alert if and only if the first
\* entry of the Weather list is Thunderstorm, Snow, Rain or Drizzle, and then
\* exactly one, with severity critical for Thunderstorm, warning for Snow and
\* Rain, info for Drizzle; with no entry or another first label there is none.
C16_ConditionAlertIffSevereFirstLabel ==
    EvalRegistered =>
       LET c == AlertsOfType("weather_condition")
           w == EvalWeather.Weather
       IN  IF w # <<>> /\ ConditionSeverity(w[1].Main) # "none"
           THEN Len(c) = 1 /\ c[1].Severity = ConditionSeverity(w[1].Main)
           ELSE c = <<>>

C16_Witness ==
    /\ EvalRegistered
    /\ EvalWeather.Weather = <<Condition("Drizzle")>>
    /\ Len(AlertsOfType("weather_condition")) = 1
    /\ AlertsOfType("weather_condition")[1].Severity = "info"

\* The measurement each numeric check compares, as the float64 of the alert.
Measured(t, w) ==
    CASE t \in {"temperature", "high_temperature", "low_temperature"} -> w.Temp
      [] t = "high_wind" -> w.Speed
      [] t = "high_humidity" -> F(w.Humidity)
      [] t = "low_pressure" -> F(w.Pressure)

\* The threshold each numeric check compares against.
ThresholdOf(t, rule) ==
    CASE t = "temperature" -> rule.AlertTemp
      [] t = "high_temperature" -> rule.HighTempAlert
      [] t = "low_temperature" -> rule.LowTempAlert
      [] t = "high_wind" -> rule.WindAlert
      [] t = "high_humidity" -> F(rule.HumidityAlert)
      [] t = "low_pressure" -> F(rule.PressureAlert)

NumericTypes == {Taxonomy[k] : k \in 1..6}

Measurements(w) == {Measured(t, w) : t \in NumericTypes}

Thresholds(rule) == {ThresholdOf(t, rule) : t \in NumericTypes}

\* C17 as stated: every alert of every one of the seven categories,
\* weather_condition included, carries in Value a measurement of the sample and
\* in Threshold a threshold of the rule (for the six numeric categories, the
\* ones its check compared), and the ZipCode and City of the rule.
C17_EveryAlertCarriesComparedValues ==
    EvalRegistered =>
       \A k \in 1..Len(evalOut) :
          LET a == evalOut[k] IN
          /\ a.ZipCode = EvalRule.ZipCode
          /\ a.City = EvalRule.City
          /\ IF a.Type \in NumericTypes
             THEN /\ a.Value = Measured(a.Type, EvalWeather)
                  /\ a.Threshold = ThresholdOf(a.Type, EvalRule)
             ELSE /\ a.Value \in Measurements(EvalWeather)
                  /\ a.Threshold \in Thresholds(EvalRule)

\* C17, amended: every alert carries the ZipCode and City of the rule; an alert
\* of the six numeric categories carries in Value the measurement its check
\* compared and in Threshold the rule threshold it was compared against; a
\* weather_condition alert has Value 0 and Threshold 0 and names the condition
\* label in its Message.
C17_NumericAlertsCarryComparedValues ==
    EvalRegistered =>
       \A k \in 1..Len(evalOut) :
          LET a == evalOut[k] IN
          /\ a.ZipCode = EvalRule.ZipCode
          /\ a.City = EvalRule.City
          /\ IF a.Type \in NumericTypes
             THEN /\ a.Value = Measured(a.Type, EvalWeather)
                  /\ a.Threshold = ThresholdOf(a.Type, EvalRule)
             ELSE /\ a.Type = "weather_condition"
                  /\ a.Value = 0
                  /\ a.Threshold = 0
                  /\ a.Message[2] = EvalWeather.Weather[1].Main

C17_Witness ==
    /\ EvalRegistered
    /\ Len(evalOut) = 6
    /\ HasAlert("weather_condition")
    /\ HasAlert("high_humidity")
    /\ EvalWeather.Humidity > EvalRule.HumidityAlert

(* ------------------------------ registry ------------------------------- *)
\* C18: every rule stored in the registry satisfies HighTempAlert > AlertTemp >
\* LowTempAlert, with HighTempAlert = AlertTemp + 10, LowTempAlert =
\* AlertTemp - 5 and PressureAlert = 1000, in every reachable registry state.
C18_RuleThresholdsOrdered ==
    \A z \in DOMAIN alertRules :
       LET rule == alertRules[z] IN
       /\ FGt(rule.HighTempAlert, rule.AlertTemp)
       /\ FGt(rule.AlertTemp, rule.LowTempAlert)
       /\ FGe(rule.HighTempAlert, FAdd(rule.AlertTemp, F(10)))
       /\ FLe(rule.HighTempAlert, FAdd(rule.AlertTemp, F(10)))
       /\ FGe(rule.LowTempAlert, FAdd(rule.AlertTemp, -F(5)))
       /\ FLe(rule.LowTempAlert, FAdd(rule.AlertTemp, -F(5)))
       /\ rule.PressureAlert = 1000

\* Steps of the loop and of the HTTP handlers.
LoopStep == received' # received \/ processed' # processed \/ readErrors' # readErrors

HandlerStep == nRequests' # nRequests

\* C19: the registry is written only during startup: every AddAlertRule call
\* is made before the loop receives its first envelope and before any request
\* is served, and no step of the loop nor any HTTP handler changes the registry.
C19_RegistryWrittenOnlyAtStartup ==
    [][ /\ (alertRules' # alertRules \/ nAdded' # nAdded) =>
              /\ phase = "startup"
              /\ received = 0 /\ readErrors = 0 /\ nRequests = 0
        /\ (LoopStep \/ HandlerStep) => (alertRules' = alertRules /\ nAdded' = nAdded)
      ]_vars

C19_Witness ==
    /\ nAdded = MaxRules
    /\ processed >= 1
    /\ nRequests >= 1
    /\ \E k \in 1..Len(metrics.calls) : metrics.calls[k].op = "UpdateAlertMetrics"

(* --------------------------- test injection ---------------------------- *)
OtherGauges ==
    {"humidityPercent", "windSpeedMps", "pressureHpa", "forecastTemperature",
     "forecastHumidity", "forecastWindSpeed", "forecastPressure", "alertValue",
     "alertThreshold"}

\* The temperature series whose value differs, or exists on one side only.
ChangedTemperatureSeries ==
    {s \in DOMAIN metrics.temperatureCelsius \cup DOMAIN metrics'.temperatureCelsius :
        \/ s \notin DOMAIN metrics.temperatureCelsius
        \/ s \notin DOMAIN metrics'.temperatureCelsius
        \/ metrics'.temperatureCelsius[s] # metrics.temperatureCelsius[s]}

\* C20: a request to an HTTP handler, POST /test/temperature with any city and
\* temperature included, makes no UpdateAlertMetrics call and leaves the result
\* of the evaluator as it was; the only sink state it changes is one
\* temperature gauge.
C20_InjectionRaisesNoAlert ==
    [][ HandlerStep =>
          /\ \A g \in OtherGauges : metrics'[g] = metrics[g]
          /\ Cardinality(ChangedTemperatureSeries) <= 1
          /\ IsPrefix(metrics.calls, metrics'.calls)
          /\ \A k \in (Len(metrics.calls) + 1)..Len(metrics'.calls) :
                metrics'.calls[k].op = "SetTestTemperature"
          /\ evalIn' = evalIn /\ evalOut' = evalOut
      ]_vars

\* An accepted injection at or above the high threshold of the rule of that
\* city, with no alert in the sink.
C20_Witness ==
    /\ httpResp # Nil
    /\ httpResp[1].status = 200
    /\ httpResp[1].Data = <<"Poughkeepsie", F(25)>>
    /\ <<"Poughkeepsie", "test">> \in DOMAIN metrics.temperatureCelsius
    /\ metrics.temperatureCelsius[<<"Poughkeepsie", "test">>] = F(25)
    /\ "12601" \in DOMAIN alertRules
    /\ FGe(F(25), alertRules["12601"].HighTempAlert)
    /\ metrics.alertValue = EmptyMap

\* A step of POST /test/temperature that answers 200.
InjectionStep ==
    /\ HandlerStep
    /\ httpResp'[1].status = 200
    /\ httpResp'[1].Message # <<>>
    /\ httpResp'[1].Message[1] = "Test temperature set for %s: %.1f"

InjectedCity == httpResp'[1].Data[1]

InjectedTemperature == httpResp'[1].Data[2]

\* The temperature series the consumption loop writes for a city.
LoopSeries(city) == <<city, "unknown">>

\* The temperature series the injection writes for a city.
TestSeries(city) == <<city, "test">>

\* C21 as stated: right after a successful injection for city C with
\* temperature T, the temperature observation the consumption loop wrote for C
\* reads T.
C21_InjectionOverwritesLoopObservation ==
    [][ (InjectionStep /\ LoopSeries(InjectedCity) \in DOMAIN metrics.temperatureCelsius) =>
           metrics'.temperatureCelsius[LoopSeries(InjectedCity)] = InjectedTemperature
      ]_vars

\* C21, amended: a successful injection for city C with temperature T sets the
\* temperature series of C labelled zip_code "test" to T; every other
\* temperature series, the one the consumption loop wrote for C (zip_code
\* "unknown") included, keeps its value.
C21_InjectionWritesTestSeries ==
    [][ InjectionStep =>
          /\ TestSeries(InjectedCity) \in DOMAIN metrics'.temperatureCelsius
          /\ metrics'.temperatureCelsius[TestSeries(InjectedCity)] = InjectedTemperature
          /\ \A s \in DOMAIN metrics.temperatureCelsius \ {TestSeries(InjectedCity)} :
                /\ s \in DOMAIN metrics'.temperatureCelsius
                /\ metrics'.temperatureCelsius[s] = metrics.temperatureCelsius[s]
      ]_vars

C21_Witness ==
    /\ LoopSeries("Poughkeepsie") \in DOMAIN metrics.temperatureCelsius
    /\ TestSeries("Poughkeepsie") \in DOMAIN metrics.temperatureCelsius
    /\ metrics.temperatureCelsius[LoopSeries("Poughkeepsie")] = F(21)
    /\ metrics.temperatureCelsius[TestSeries("Poughkeepsie")] = F(25)

(* ------------------- responses of the injection endpoint --------------- *)
\* A step that serves POST /test/temperature.
PostStep == HandlerStep /\ httpReq'[1].route = "POST /test/temperature"

PostedBody == httpReq'[1].body[1]

\* The body is not one well-formed JSON object with the fields of the request.
MalformedBody(body) == body.first = Nil \/ body.rest # <<>>

\* C22: the endpoint answers 400 and leaves the metrics sink unchanged when the
\* request body is malformed or the city is empty; otherwise it answers 200
\* with a body echoing exactly the city and temperature applied to the sink.
C22_BadRequest400ElseEcho200 ==
    [][ PostStep =>
          IF MalformedBody(PostedBody) \/ PostedBody.first[1].City = ""
          THEN /\ httpResp'[1].status = 400
               /\ metrics' = metrics
          ELSE LET req == PostedBody.first[1] IN
               /\ httpResp'[1].status = 200
               /\ httpResp'[1].Data = <<req.City, req.Temperature>>
               /\ metrics'.temperatureCelsius[TestSeries(req.City)] = req.Temperature
      ]_vars

(* ----------------------------- concurrency ----------------------------- *)
GaugeNames ==
    {"temperatureCelsius", "humidityPercent", "windSpeedMps", "pressureHpa",
     "forecastTemperature", "forecastHumidity", "forecastWindSpeed",
     "forecastPressure", "alertValue", "alertThreshold"}

\* Every series that was set holds the value of the last Set made on it.
NoLostSet ==
    \A k \in DOMAIN lastSet : /\ k[2] \in DOMAIN metrics[k[1]]
                              /\ metrics[k[1]][k[2]] = lastSet[k]

\* The next step of the loop on the envelope it holds can be taken.
LoopNotBlocked ==
    /\ (phase = "running" /\ pc = "process") => ENABLED BeginProcess
    /\ (phase = "running" /\ pc = "apply") => (ENABLED ApplySet \/ ENABLED EndProcess)

ValidEntries ==
    {k \in 1..Len(parseIn[1]) :
        ~IsSkipped(parseIn[1][k]) /\ parseLine(parseIn[1][k]).err = "nil"}

\* C24: when the input file holds an invalid entry among valid ones, the
\* invalid entry is skipped and the valid ones are kept: ParseInputFile yields
\* the request of every valid entry and, once initializeAlertEvaluator has
\* returned, the registry holds a rule for the zip code of each of them.
C24_InvalidEntriesSkipped ==
    (parseIn # Nil /\ phase = "running") =>
       \A k \in ValidEntries :
          LET req == parseLine(parseIn[1][k]).req[1] IN
          /\ \E j \in 1..Len(parseOut[1].requests) : parseOut[1].requests[j] = req
          /\ req[1] \in DOMAIN alertRules

\* The format of a zip code: 5 digits, or 5 digits, a dash and 4 digits.
ZipFormat(zip) ==
    LET r == Runes(zip) IN
    \/ Len(r) = 5 /\ \A i \in 1..5 : r[i] \in Digits
    \/ /\ Len(r) = 10
       /\ r[6] = "-"
       /\ \A i \in (1..5) \cup (7..10) : r[i] \in Digits

\* A numeric field holds a number between lo and hi, ends included.
Between(field, lo, hi) == field # NotNum /\ FGe(field[1], lo) /\ FLe(field[1], hi)

WellFormedEntry(l) ==
    /\ Len(l) = 5
    /\ ZipFormat(l[1])
    /\ Between(l[2], 1, 5)
    /\ Between(l[3], F(-50), F(60))
    /\ Between(l[4], F(0), F(100))
    /\ Between(l[5], 0, 100)

\* C25: parseLine accepts a line if and only if it has exactly 5 fields with a
\* zip code of 5 digits or 5+4 digits, days in 1..5, temperature threshold in
\* -50..60, wind threshold in 0..100 and humidity threshold in 0..100; every
\* other line yields an error and no request.
C25_ParseLineAcceptsExactlyWellFormed ==
    parseIn # Nil =>
       \A k \in 1..Len(parseIn[1]) :
          LET l == parseIn[1][k] IN
          /\ parseLine(l).err = "nil" <=> WellFormedEntry(l)
          /\ parseLine(l).err # "nil" => parseLine(l).req = Nil

(* --------------------- shape of the temperature alerts ----------------- *)
\* C26: in every evaluation a high_temperature alert has the custom-threshold
\* ("temperature") alert immediately before it, high_temperature and
\* low_temperature never occur together, and so an evaluation returns at most
\* six alerts.
C26_HighAfterCustomNeverWithLow ==
    /\ \A k \in 1..Len(evalOut) :
         evalOut[k].Type = "high_temperature" =>
            k > 1 /\ evalOut[k - 1].Type = "temperature"
    /\ ~(HasAlert("high_temperature") /\ HasAlert("low_temperature"))
    /\ Len(evalOut) <= 6

C26_Witness ==
    /\ phase = "evaluated"
    /\ HasAlert("high_temperature")
    /\ Len(evalOut) = 6

(* ------------------------------- producer ------------------------------ *)
\* The Send* calls made for the i-th request of the batch, in order.
SentFor(i) == SelectSeq(sent, LAMBDA s : s.i = i)

MessageTypes(calls) == [k \in 1..Len(calls) |-> calls[k].message.MessageType]

Min(a, b) == IF a < b THEN a ELSE b

\* processExtendedWeatherData is about to return nil for a request of N days.
ExtendedDone(N) ==
    /\ ppc = "return"
    /\ Days(requests[reqIndex]) = N
    /\ N >= 4

\* C27: for a request of N >= 4 days processExtendedWeatherData sends one
\* 'current' message, then the first min(16, len(forecast.List)) forecast
\* items as 'hourly' messages in list order, then N - 2 'daily' messages.
C27_ExtendedSendsCurrentHourlyDaily ==
    \A N \in 4..5 :
       ExtendedDone(N) =>
          LET calls == SentFor(reqIndex)
              list == forecast[1].List
              n == Min(16, Len(list))
          IN /\ Len(calls) = 1 + n + (N - 2)
             /\ calls[1].message.MessageType = "current"
             /\ \A k \in 1..n :
                  /\ calls[1 + k].message.MessageType = "hourly"
                  /\ calls[1 + k].message.Hourly = Ptr(list[k])
             /\ \A k \in 1..(N - 2) :
                  calls[1 + n + k].message.MessageType = "daily"

\* The number of Send* calls process*WeatherData has made for a request when
\* it returns nil with the forecast fc.
SendCalls(req, fc) ==
    IF Days(req) >= 4
    THEN 1 + Min(HourlyLimit, Len(fc.List)) + 2
    ELSE 2

Increasing(indices) ==
    \A k \in 1..Len(indices), l \in 1..Len(indices) : k < l => indices[k] <= indices[l]

\* C30: in processInitialBatch a failed fetch abandons only the request it
\* was made for: the requests after it are still processed, in file order;
\* and a failed send of one message does not stop the sends that remain for
\* the request.
C30_FailuresAreIsolated ==
    /\ Increasing([k \in 1..Len(sent) |-> sent[k].i])
    /\ Len(returned) <= Len(requests)
    /\ \A i \in 1..Len(returned) :
         /\ returned[i] = "failed to fetch weather" => SentFor(i) = <<>>
         /\ returned[i] = "failed to fetch forecast" =>
               MessageTypes(SentFor(i)) = <<"current">>
    /\ ppc = "return" =>
         Len(SentFor(reqIndex)) = SendCalls(requests[reqIndex], forecast[1])
    /\ ppc = "done" =>
         /\ Len(returned) = Len(requests)
         /\ \A i \in 1..Len(requests) :
              returned[i] = "nil" =>
                 /\ Len(SentFor(i)) >= 2
                 /\ SentFor(i)[1].message.ZipCode = requests[i][1]

C30_Witness ==
    /\ ppc = "done"
    /\ Len(requests) = 2
    /\ returned[1] # "nil"
    /\ returned[2] = "nil"
    /\ \E k \in 1..(Len(sent) - 1) : sent[k].err # "nil" /\ sent[k + 1].i = 2

(* ------------------------- hourly evaluation --------------------------- *)
\* What the claim compares of an alert sequence: type, severity, value and
\* threshold of each alert, in order.
Compared(alerts) ==
    [k \in 1..Len(alerts) |->
        [Type |-> alerts[k].Type, Severity |-> alerts[k].Severity,
         Value |-> alerts[k].Value, Threshold |-> alerts[k].Threshold]]

HourlyEvaluated == evalIn # Nil /\ evalIn[1].kind = "hourly"

\* C28: EvaluateHourlyWeather on a forecast item returns the same alert
\* sequence (types, severities, values, thresholds, order) as
\* EvaluateCurrentWeather on the current sample with the item's temperature,
\* pressure, humidity, wind speed and conditions, for the same zip code.
C28_HourlyEvaluatesAsCurrent ==
    HourlyEvaluated =>
       Compared(evalOut) =
          Compared(EvaluateCurrentWeather(alertRules, evalIn[1].weather, evalIn[1].zipCode))

C28_Witness ==
    /\ HourlyEvaluated
    /\ Len(evalOut) = 6
    /\ evalOut[6].Type = "weather_condition"

(* ------------------------ observation gauges --------------------------- *)
\* The envelopes processed so far that write the observation of a city:
\* the well-formed 'current' and 'daily' ones.
ObservationWrites(city) ==
    {i \in 1..Len(outcomes) :
        /\ WellFormed(stream[i])
        /\ stream[i].MessageType \in {"current", "daily"}
        /\ stream[i].City = city}

Latest(S) == CHOOSE i \in S : \A j \in S : j <= i

\* The observation a 'current' or 'daily' envelope carries: temperature (the
\* average for a daily summary), humidity, wind speed and pressure (1013.25
\* for a daily summary).
ObservationOf(e) ==
    IF e.MessageType = "current"
    THEN <<e.Current[1].Temp, F(e.Current[1].Humidity), e.Current[1].Speed,
           F(e.Current[1].Pressure)>>
    ELSE <<e.Daily[1].TempAvg, F(e.Daily[1].Humidity), e.Daily[1].WindSpeed, 101325>>

ObservationGauges ==
    <<metrics.temperatureCelsius, metrics.humidityPercent, metrics.windSpeedMps,
      metrics.pressureHpa>>

Cities == {"Poughkeepsie", "Beverly Hills"}

\* C29: 'current' and 'daily' envelopes of a city write the same observation
\* series: the four observation gauges of the city hold the values of the
\* most recently processed 'current' or 'daily' envelope of that city (for a
\* daily summary the average temperature and the pressure 1013.25), and
\* 'forecast' and 'hourly' envelopes leave these gauges as they are.
C29_CurrentAndDailyShareObservationSeries ==
    \A city \in Cities :
       LET series == <<city, "unknown">> IN
       \A g \in 1..4 :
          IF ObservationWrites(city) = {}
          THEN series \notin DOMAIN ObservationGauges[g]
          ELSE /\ DOMAIN ObservationGauges[g] \subseteq {<<c, "unknown">> : c \in Cities}
               /\ series \in DOMAIN ObservationGauges[g]
               /\ ObservationGauges[g][series] =
                     ObservationOf(stream[Latest(ObservationWrites(city))])[g]

C29_Witness ==
    /\ Len(outcomes) = 2
    /\ outcomes = <<"nil", "nil">>
    /\ stream[1].MessageType = "current"
    /\ stream[2].MessageType = "daily"
    /\ stream[1].City = stream[2].City
    /\ metrics.temperatureCelsius[<<"Poughkeepsie", "unknown">>] = HotDay.TempAvg

====
